---------------------------- MODULE Spec2Model ----------------------------
(***************************************************************************)
(* A model of zip_parser (src/lib.rs): the record codec, the incremental   *)
(* push parser PassiveParser::feed_data and the directory-driven parser    *)
(* SeekingParser.  Bytes are naturals in 0..255, byte strings are          *)
(* sequences, and every record is decoded from its bytes little-endian,    *)
(* field by field, at the offsets of the packed structs.                   *)
(***************************************************************************)
EXTENDS Integers, Sequences, FiniteSets, TLC

(***************************************************************************)
(* Bounds of the model.                                                    *)
(***************************************************************************)
\* The const generic N of PassiveParser<N> / SeekingParser<_, N>: the
\* capacity of LocalFileInfo::file_name_buffer.
N == 2
\* The largest number of local records in a generated byte stream.
MaxFiles == 2
\* The length of the medium-sized chunk a caller may feed (besides one
\* byte and "everything that is left").
ChunkLen == 7
\* The callback may return false on its k-th invocation of a call,
\* k in 1..MaxCancelAt (0: it never returns false in that call).
MaxCancelAt == 3
\* The largest buffer a caller passes to LocalFile::read.
MaxReadLen == 2
\* The largest number of LocalFile::read calls on the yielded entries.
MaxReads == 2
\* The longest source and the longest buffer of a Read::read_exact call.
MaxSrc == 3
MaxBuf == 3
\* The longest slice passed to Signature::try_from.
MaxSigLen == 5
\* The longest run of garbage bytes between two records.
MaxGarbage == 5
\* The most calls of PassiveParser::reset in one history.
MaxResets == 1

(***************************************************************************)
(* Program constants.                                                      *)
(***************************************************************************)
LOCAL_FILE_HEADER_LEN == 30
CENTRAL_FILE_HEADER_LEN == 46
CENTRAL_DIR_END_LEN == 22
SIG_LOCAL_FILE_HEADER == 67324752
SIG_CENTRAL_FILE_HEADER == 33639248
SIG_CENTRAL_DIR_END == 101010256

(***************************************************************************)
(* Little-endian helpers.                                                  *)
(***************************************************************************)
Min(a, b) == IF a < b THEN a ELSE b

LE16(v) == << v % 256, (v \div 256) % 256 >>

LE32(v) == << v % 256, (v \div 256) % 256, (v \div 65536) % 256,
              (v \div 16777216) % 256 >>

\* The u16 / u32 field of a packed struct that starts at byte offset off
\* (0-based) of the byte string b.
U16(b, off) == b[off + 1] + 256 * b[off + 2]

U32(b, off) == b[off + 1] + 256 * b[off + 2] + 65536 * b[off + 3]
               + 16777216 * b[off + 4]

Zeros(n) == [i \in 1..n |-> 0]

\* u32::from_le_bytes(b[off..off + 4]) == v, compared in 16-bit halves (the
\* model checker's integers are 32-bit signed, a u32 is not).
U32Is(b, off, v) == U16(b, off) = v % 65536 /\ U16(b, off + 2) = v \div 65536

\* impl TryFrom<[u8; 4]> / TryFrom<u32> for Signature: the four bytes as a
\* little-endian u32, matched against the three signatures.
SignatureTryFrom4(value) ==
    CASE U32Is(value, 0, SIG_LOCAL_FILE_HEADER) ->
             [ok |-> TRUE,  v |-> "LocalFileHeader"]
      [] U32Is(value, 0, SIG_CENTRAL_FILE_HEADER) ->
             [ok |-> TRUE,  v |-> "CentralFileHeader"]
      [] U32Is(value, 0, SIG_CENTRAL_DIR_END) ->
             [ok |-> TRUE,  v |-> "CentralDirEnd"]
      [] OTHER -> [ok |-> FALSE, v |-> "InvalidSignature"]

\* A variant of the conversion below that looks at the last four bytes of
\* the slice.
SignatureTryFrom_LastFour(value) ==
    IF Len(value) < 4
    THEN [ok |-> FALSE, v |-> "DataNotEnough"]
    ELSE SignatureTryFrom4(SubSeq(value, Len(value) - 3, Len(value)))

\* impl TryFrom<&[u8]> for Signature.
SignatureTryFrom(value) ==
    IF Len(value) < 4
    THEN [ok |-> FALSE, v |-> "DataNotEnough"]
    ELSE SignatureTryFrom4(SubSeq(value, 1, 4))

\* impl From<u16> for CompressMethod.
CompressMethodFrom(value) ==
    CASE value = 0  -> "Uncompress"
      [] value = 1  -> "Shrunk"
      [] value = 2  -> "Reduced1"
      [] value = 3  -> "Reduced2"
      [] value = 4  -> "Reduced3"
      [] value = 5  -> "Reduced4"
      [] value = 6  -> "Imploded"
      [] value = 8  -> "Deflated"
      [] value = 12 -> "BZIP2"
      [] value = 14 -> "LZMA"
      [] value = 19 -> "LZ77z"
      [] value = 93 -> "Zstd"
      [] value = 94 -> "MP3"
      [] value = 95 -> "XZ"
      [] value = 96 -> "JPEG"
      [] OTHER      -> "Unknown"

(***************************************************************************)
(* The packed records.  from_bytes returns <<header>> (Some) when the      *)
(* signature field is the record's own, and << >> (None) otherwise.        *)
(***************************************************************************)
LocalFileHeaderFromBytes(b) ==
    IF U32Is(b, 0, SIG_LOCAL_FILE_HEADER)
    THEN << [ compression_method |-> U16(b, 8),
              compressed_size    |-> U32(b, 18),
              uncompressed_size  |-> U32(b, 22),
              file_name_length   |-> U16(b, 26),
              extra_field_length |-> U16(b, 28) ] >>
    ELSE << >>

LocalFileHeaderLen(h) ==
    LOCAL_FILE_HEADER_LEN + h.file_name_length + h.extra_field_length

CentralFileHeaderFromBytes(b) ==
    IF U32Is(b, 0, SIG_CENTRAL_FILE_HEADER)
    THEN << [ compression_method  |-> U16(b, 10),
              compressed_size     |-> U32(b, 20),
              uncompressed_size   |-> U32(b, 24),
              file_name_length    |-> U16(b, 28),
              extra_field_length  |-> U16(b, 30),
              file_comment_length |-> U16(b, 32),
              relative_offset_of_local_header |-> U32(b, 42) ] >>
    ELSE << >>

CentralFileHeaderLen(h) ==
    CENTRAL_FILE_HEADER_LEN + h.file_name_length + h.extra_field_length
    + h.file_comment_length

CentralDirEndFromBytes(b) ==
    IF U32Is(b, 0, SIG_CENTRAL_DIR_END)
    THEN << [ total_entries_this_disk  |-> U16(b, 8),
              total_entries_all_disk   |-> U16(b, 10),
              central_directory_offset |-> U32(b, 16),
              zip_file_comment_length  |-> U16(b, 20) ] >>
    ELSE << >>

CentralDirEndLen(h) == CENTRAL_DIR_END_LEN + h.zip_file_comment_length

\* impl Default for LocalFileInfo<N>.
LocalFileInfoDefault ==
    [ file_name_buffer   |-> Zeros(N),
      file_name_length   |-> 0,
      extra_field_length |-> 0,
      file_data_offset   |-> 0,
      compression_method |-> "Uncompress",
      compressed_size    |-> 0,
      uncompressed_size  |-> 0 ]


(***************************************************************************)
(* PassiveParser: the push parser.                                         *)
(***************************************************************************)
\* ParserState; htype and hlen are the payload of RecvHeader.
RecvHeaderState(htype, hlen) ==
    [tag |-> "RecvHeader", htype |-> htype, hlen |-> hlen]

OtherState(tag) == [tag |-> tag, htype |-> "-", hlen |-> 0]

\* impl Default for PassiveParser<N>.  localfile_info is << >> for None and
\* <<info>> for Some(info).
PassiveParserDefault ==
    [ state                     |-> RecvHeaderState("HeaderSignature", 4),
      zip_file_comment          |-> << >>,
      buffer                    |-> << >>,
      localfile_info            |-> << >>,
      localfile_index           |-> 0,
      centralfile_index         |-> 0,
      file_name_index           |-> 0,
      file_name_len             |-> 0,
      extra_field_index         |-> 0,
      extra_field_len           |-> 0,
      file_data_index           |-> 0,
      file_data_len             |-> 0,
      central_file_header_index |-> 0,
      central_file_header_len   |-> 0,
      central_dir_end_index     |-> 0,
      central_dir_end_len       |-> 0 ]

\* ParserEvent and ParsingError values.  The LocalFileHeader event borrows
\* the parser's LocalFileInfo: the event records what the callback can read
\* from it (file_name() is file_name_buffer[..file_name_length]).
InfoView(info) ==
    [ name               |-> SubSeq(info.file_name_buffer, 1, info.file_name_length),
      compression_method |-> info.compression_method,
      compressed_size    |-> info.compressed_size,
      uncompressed_size  |-> info.uncompressed_size ]

EvLocalFileHeader(i, info) ==
    [type |-> "LocalFileHeader", index |-> i, info |-> InfoView(info)]

EvLocalFileData(i, off, d) ==
    [type |-> "LocalFileData", index |-> i, offset |-> off, data |-> d]

EvLocalFileEnd(i) == [type |-> "LocalFileEnd", index |-> i]

EvParsingError(i, err) == [type |-> "ParsingError", index |-> i, err |-> err]

EvUserCancel(n) == [type |-> "UserCancel", index |-> -1, n |-> n]

ErrSimple(kind) == [kind |-> kind]

ErrLocalFileNameTooLong(i, len) ==
    [kind |-> "LocalFileNameTooLong", index |-> i, len |-> len]

ErrLocalFileHeaderNotRecved(i) ==
    [kind |-> "LocalFileHeaderNotRecved", index |-> i]

(***************************************************************************)
(* One run of feed_data is a loop over a record s:                         *)
(*   p        the parser (self)                                            *)
(*   count    BufferData::count, the bytes of data processed so far        *)
(*   evs      the events handed to on_event in this call, in order         *)
(*   ncb      the number of on_event invocations so far                    *)
(*   cancelAt the invocation on which the callback returns false (0: none) *)
(*   cont     continue_parsing                                             *)
(*   status   "run" while looping, "ok" for break Ok(..), "cancel" for     *)
(*            break Err(..), "panic" when the call panics                  *)
(***************************************************************************)
\* on_event(ev): the event is delivered and the callback's answer is
\* stored in continue_parsing.
Emit(s, ev) ==
    [s EXCEPT !.evs = Append(@, ev),
              !.ncb = @ + 1,
              !.cont = (s.ncb + 1 # s.cancelAt)]

\* BufferData::peek_data
PeekData(data, count, len) == SubSeq(data, count + 1, count + len)

\* PassiveParser::append_bytes: the new buffer and the number of bytes taken.
AppendBytes(buffer, d) ==
    LET len == IF Len(d) + Len(buffer) > CENTRAL_FILE_HEADER_LEN
               THEN CENTRAL_FILE_HEADER_LEN - Len(buffer)
               ELSE Len(d)
    IN  [buffer |-> buffer \o SubSeq(d, 1, len), len |-> len]

\* A variant of OnHeaderSignature that drops only the first of the four
\* bytes after an invalid signature (a one-byte slide).
OnHeaderSignature_SlidesOneByte(s) ==
    LET r == SignatureTryFrom(s.p.buffer) IN
    IF ~r.ok
    THEN [Emit(s, EvParsingError(s.p.localfile_index, ErrSimple(r.v)))
            EXCEPT !.p.buffer = Tail(s.p.buffer)]
    ELSE CASE r.v = "LocalFileHeader" ->
                [s EXCEPT !.p.state =
                     RecvHeaderState("LocalFileHeader", LOCAL_FILE_HEADER_LEN)]
           [] r.v = "CentralFileHeader" ->
                [s EXCEPT !.p.state =
                     RecvHeaderState("CentralFileHeader", CENTRAL_FILE_HEADER_LEN)]
           [] r.v = "CentralDirEnd" ->
                [s EXCEPT !.p.state =
                     RecvHeaderState("CentralDirEnd", CENTRAL_DIR_END_LEN)]

\* RecvHeader(HeaderSignature, 4) with four bytes in the buffer.
OnHeaderSignature(s) ==
    LET r == SignatureTryFrom(s.p.buffer) IN
    IF ~r.ok
    THEN [Emit(s, EvParsingError(s.p.localfile_index, ErrSimple(r.v)))
            EXCEPT !.p.buffer = << >>]
    ELSE CASE r.v = "LocalFileHeader" ->
                [s EXCEPT !.p.state =
                     RecvHeaderState("LocalFileHeader", LOCAL_FILE_HEADER_LEN)]
           [] r.v = "CentralFileHeader" ->
                [s EXCEPT !.p.state =
                     RecvHeaderState("CentralFileHeader", CENTRAL_FILE_HEADER_LEN)]
           [] r.v = "CentralDirEnd" ->
                [s EXCEPT !.p.state =
                     RecvHeaderState("CentralDirEnd", CENTRAL_DIR_END_LEN)]

\* RecvHeader(LocalFileHeader, 30) with the fixed header in the buffer.
OnLocalFileHeader(s) ==
    LET h == LocalFileHeaderFromBytes(s.p.buffer) IN
    IF h # << >>
    THEN [s EXCEPT
            !.p.state = OtherState("RecvLocalFileName"),
            !.p.file_name_index = 0,
            !.p.file_name_len = h[1].file_name_length,
            !.p.extra_field_index = 0,
            !.p.extra_field_len = h[1].extra_field_length,
            !.p.file_data_index = 0,
            !.p.file_data_len = h[1].compressed_size,
            !.p.localfile_info =
                << [LocalFileInfoDefault EXCEPT
                      !.compression_method = CompressMethodFrom(h[1].compression_method),
                      !.compressed_size = h[1].compressed_size,
                      !.uncompressed_size = h[1].uncompressed_size] >>,
            !.p.buffer = << >>]
    ELSE [Emit(s, EvParsingError(s.p.localfile_index,
                                 ErrSimple("InvalidLocalFileHeader")))
            EXCEPT !.p.buffer = << >>]

\* A variant of the step below that starts counting the record at 0, as if
\* the 46 header bytes had not been taken yet.
OnCentralFileHeader_CountsFromZero(s) ==
    LET h == CentralFileHeaderFromBytes(s.p.buffer) IN
    IF h # << >>
    THEN [s EXCEPT
            !.p.central_file_header_len = CentralFileHeaderLen(h[1]),
            !.p.central_file_header_index = 0,
            !.p.buffer = << >>,
            !.p.state = OtherState("RecvCentralFileHeader")]
    ELSE [Emit(s, EvParsingError(s.p.localfile_index,
                                 ErrSimple("InvalidCentralFileHeader")))
            EXCEPT !.p.buffer = << >>,
                   !.p.state = OtherState("RecvCentralFileHeader")]

\* RecvHeader(CentralFileHeader, 46) with the fixed header in the buffer.
OnCentralFileHeader(s) ==
    LET h == CentralFileHeaderFromBytes(s.p.buffer) IN
    IF h # << >>
    THEN [s EXCEPT
            !.p.central_file_header_len = CentralFileHeaderLen(h[1]),
            !.p.central_file_header_index = Len(s.p.buffer),
            !.p.buffer = << >>,
            !.p.state = OtherState("RecvCentralFileHeader")]
    ELSE [Emit(s, EvParsingError(s.p.localfile_index,
                                 ErrSimple("InvalidCentralFileHeader")))
            EXCEPT !.p.buffer = << >>,
                   !.p.state = OtherState("RecvCentralFileHeader")]

\* RecvHeader(CentralDirEnd, 22) with the fixed record in the buffer.
OnCentralDirEnd(s) ==
    LET h == CentralDirEndFromBytes(s.p.buffer) IN
    IF h # << >>
    THEN [s EXCEPT
            !.p.central_dir_end_len = CentralDirEndLen(h[1]),
            !.p.central_dir_end_index = Len(s.p.buffer),
            !.p.buffer = << >>,
            !.p.state = OtherState("RecvCentralDirEnd")]
    ELSE [Emit(s, EvParsingError(s.p.localfile_index,
                                 ErrSimple("InvalidCentralDirEnd")))
            EXCEPT !.p.buffer = << >>,
                   !.p.state = OtherState("RecvCentralDirEnd")]

\* ParserState::RecvHeader(header_type, header_len): queue the bytes, and
\* parse once header_len bytes are in the buffer.
RecvHeader(s, data) ==
    LET len == Min(s.p.state.hlen - Len(s.p.buffer), Len(data) - s.count)
        ab  == AppendBytes(s.p.buffer, PeekData(data, s.count, len))
        s1  == [s EXCEPT !.p.buffer = ab.buffer, !.count = @ + ab.len]
    IN  IF Len(ab.buffer) < s.p.state.hlen
        THEN s1
        ELSE CASE s.p.state.htype = "HeaderSignature"   -> OnHeaderSignature(s1)
               [] s.p.state.htype = "LocalFileHeader"   -> OnLocalFileHeader(s1)
               [] s.p.state.htype = "CentralFileHeader" -> OnCentralFileHeader(s1)
               [] s.p.state.htype = "CentralDirEnd"     -> OnCentralDirEnd(s1)

\* on_event(ev) == false { break Err(..) }: the two early exits of
\* RecvLocalFileName.
EmitOrBreak(s, ev) ==
    LET s1 == Emit(s, ev) IN
    IF s1.cont THEN s1 ELSE [s1 EXCEPT !.status = "cancel"]

\* RecvLocalFileName, "if header is ready".
NameCheckHeader(s) ==
    IF s.p.localfile_info = << >>
    THEN EmitOrBreak(s, EvParsingError(s.p.localfile_index,
                            ErrLocalFileHeaderNotRecved(s.p.localfile_index)))
    ELSE s

\* A variant of NameCheckLen that reports nothing.
NameCheckLen_Skipped(s) == s

\* RecvLocalFileName, "check file name len".
NameCheckLen(s) ==
    IF s.p.file_name_len > N
    THEN EmitOrBreak(s, EvParsingError(s.p.localfile_index,
                            ErrLocalFileNameTooLong(s.p.localfile_index,
                                                    s.p.file_name_len)))
    ELSE s

\* RecvLocalFileName, "save filename".  localfile_info.as_mut().unwrap()
\* panics on None, and the slice file_name_buffer[index..index + len] of
\* the [u8; N] array panics when index + len > N.
NameSave(s, data) ==
    IF s.p.file_name_index >= s.p.file_name_len
    THEN IF s.p.localfile_info = << >>
         THEN [s EXCEPT !.status = "panic"]
         ELSE [s EXCEPT !.p.localfile_info[1].file_name_length = s.p.file_name_len,
                        !.p.state = OtherState("RecvLocalFileExtraField")]
    ELSE LET len == Min(s.p.file_name_len - s.p.file_name_index,
                        Len(data) - s.count)
             idx == s.p.file_name_index
         IN  IF s.p.localfile_info = << >> \/ idx + len > N
             THEN [s EXCEPT !.status = "panic"]
             ELSE [s EXCEPT
                     !.p.localfile_info[1].file_name_buffer =
                         [i \in 1..N |->
                            IF idx < i /\ i <= idx + len
                            THEN data[s.count + (i - idx)]
                            ELSE @[i]],
                     !.p.file_name_index = idx + len,
                     !.count = @ + len]

\* ParserState::RecvLocalFileName
RecvLocalFileName(s, data) ==
    LET s1 == NameCheckHeader(s) IN
    IF s1.status # "run" THEN s1
    ELSE LET s2 == NameCheckLen(s1) IN
         IF s2.status # "run" THEN s2 ELSE NameSave(s2, data)

\* A variant of the state below that keeps the extra-field bytes in the
\* header buffer.
RecvLocalFileExtraField_Buffers(s, data) ==
    IF s.p.extra_field_index >= s.p.extra_field_len
    THEN IF s.p.localfile_info = << >>
         THEN [s EXCEPT !.status = "panic"]
         ELSE [Emit(s, EvLocalFileHeader(s.p.localfile_index, s.p.localfile_info[1]))
                 EXCEPT !.p.state = OtherState("RecvLocalFileData")]
    ELSE LET len == Min(s.p.extra_field_len - s.p.extra_field_index,
                        Len(data) - s.count)
         IN  [s EXCEPT !.p.buffer = @ \o PeekData(data, s.count, len),
                       !.p.extra_field_index = @ + len, !.count = @ + len]

\* A variant of the state below that delivers the header event as soon as
\* the name is complete, before the extra field has been counted.
RecvLocalFileExtraField_EmitsEarly(s, data) ==
    IF s.p.localfile_info = << >>
    THEN [s EXCEPT !.status = "panic"]
    ELSE [Emit(s, EvLocalFileHeader(s.p.localfile_index, s.p.localfile_info[1]))
            EXCEPT !.p.state = OtherState("RecvLocalFileData")]

\* ParserState::RecvLocalFileExtraField
RecvLocalFileExtraField(s, data) ==
    IF s.p.extra_field_index >= s.p.extra_field_len
    THEN IF s.p.localfile_info = << >>
         THEN [s EXCEPT !.status = "panic"]
         ELSE [Emit(s, EvLocalFileHeader(s.p.localfile_index, s.p.localfile_info[1]))
                 EXCEPT !.p.state = OtherState("RecvLocalFileData")]
    ELSE LET len == Min(s.p.extra_field_len - s.p.extra_field_index,
                        Len(data) - s.count)
         IN  [s EXCEPT !.p.extra_field_index = @ + len, !.count = @ + len]

\* A variant of RecvLocalFileData that keeps localfile_index at the end of
\* an entry.
RecvLocalFileData_NoIndexIncrement(s, data) ==
    IF s.p.file_data_index >= s.p.file_data_len
    THEN [Emit(s, EvLocalFileEnd(s.p.localfile_index))
            EXCEPT !.p.state = RecvHeaderState("HeaderSignature", 4)]
    ELSE LET len == Min(s.p.file_data_len - s.p.file_data_index,
                        Len(data) - s.count)
         IN  [Emit(s, EvLocalFileData(s.p.localfile_index, s.p.file_data_index,
                                      PeekData(data, s.count, len)))
                EXCEPT !.p.file_data_index = @ + len, !.count = @ + len]

\* A variant of RecvLocalFileData that takes the slice only when the
\* callback has returned true for it.
RecvLocalFileData_CancelBeforeCount(s, data) ==
    IF s.p.file_data_index >= s.p.file_data_len
    THEN [Emit(s, EvLocalFileEnd(s.p.localfile_index))
            EXCEPT !.p.localfile_index = @ + 1,
                   !.p.state = RecvHeaderState("HeaderSignature", 4)]
    ELSE LET len == Min(s.p.file_data_len - s.p.file_data_index,
                        Len(data) - s.count)
             s1  == Emit(s, EvLocalFileData(s.p.localfile_index, s.p.file_data_index,
                                            PeekData(data, s.count, len)))
         IN  IF s1.cont
             THEN [s1 EXCEPT !.p.file_data_index = @ + len, !.count = @ + len]
             ELSE s1

\* A variant of the state below that hands the payload over one byte at a
\* time.
RecvLocalFileData_ByteWise(s, data) ==
    IF s.p.file_data_index >= s.p.file_data_len
    THEN [Emit(s, EvLocalFileEnd(s.p.localfile_index))
            EXCEPT !.p.localfile_index = @ + 1,
                   !.p.state = RecvHeaderState("HeaderSignature", 4)]
    ELSE [Emit(s, EvLocalFileData(s.p.localfile_index, s.p.file_data_index,
                                  PeekData(data, s.count, 1)))
            EXCEPT !.p.file_data_index = @ + 1, !.count = @ + 1]

\* ParserState::RecvLocalFileData
RecvLocalFileData(s, data) ==
    IF s.p.file_data_index >= s.p.file_data_len
    THEN [Emit(s, EvLocalFileEnd(s.p.localfile_index))
            EXCEPT !.p.localfile_index = @ + 1,
                   !.p.state = RecvHeaderState("HeaderSignature", 4)]
    ELSE LET len == Min(s.p.file_data_len - s.p.file_data_index,
                        Len(data) - s.count)
         IN  [Emit(s, EvLocalFileData(s.p.localfile_index, s.p.file_data_index,
                                      PeekData(data, s.count, len)))
                EXCEPT !.p.file_data_index = @ + len, !.count = @ + len]

\* ParserState::RecvCentralFileHeader
RecvCentralFileHeader(s, data) ==
    IF s.p.central_file_header_index >= s.p.central_file_header_len
    THEN [s EXCEPT !.p.centralfile_index = @ + 1,
                   !.p.central_file_header_index = 0,
                   !.p.central_file_header_len = 0,
                   !.p.state = RecvHeaderState("HeaderSignature", 4)]
    ELSE LET len == Min(s.p.central_file_header_len - s.p.central_file_header_index,
                        Len(data) - s.count)
         IN  [s EXCEPT !.p.central_file_header_index = @ + len, !.count = @ + len]

\* ParserState::RecvCentralDirEnd (hosted build: the comment is kept).
RecvCentralDirEnd(s, data) ==
    IF s.p.central_dir_end_index >= s.p.central_dir_end_len
    THEN [s EXCEPT !.p.central_dir_end_index = 0,
                   !.p.central_dir_end_len = 0,
                   !.p.state = RecvHeaderState("HeaderSignature", 4)]
    ELSE LET len == Min(s.p.central_dir_end_len - s.p.central_dir_end_index,
                        Len(data) - s.count)
         IN  [s EXCEPT !.p.zip_file_comment = @ \o PeekData(data, s.count, len),
                       !.p.central_dir_end_index = @ + len,
                       !.count = @ + len]

\* One iteration of the loop of feed_data.
Step(s, data) ==
    IF s.count >= Len(data)
    THEN [s EXCEPT !.status = "ok"]
    ELSE LET s0 == [s EXCEPT !.cont = TRUE]
             s1 == CASE s.p.state.tag = "RecvHeader" -> RecvHeader(s0, data)
                     [] s.p.state.tag = "RecvLocalFileName" -> RecvLocalFileName(s0, data)
                     [] s.p.state.tag = "RecvLocalFileExtraField" ->
                            RecvLocalFileExtraField(s0, data)
                     [] s.p.state.tag = "RecvLocalFileData" -> RecvLocalFileData(s0, data)
                     [] s.p.state.tag = "RecvCentralFileHeader" ->
                            RecvCentralFileHeader(s0, data)
                     [] s.p.state.tag = "RecvCentralDirEnd" -> RecvCentralDirEnd(s0, data)
         IN  IF s1.status = "run" /\ ~s1.cont
             THEN [s1 EXCEPT !.status = "cancel"]
             ELSE s1

RECURSIVE Loop(_, _)
Loop(s, data) == IF s.status # "run" THEN s ELSE Loop(Step(s, data), data)

\* A variant of ReportCancel that reports the bytes left over.
ReportCancel_BytesLeft(s, data) ==
    IF s.status = "cancel"
    THEN [s EXCEPT !.evs = Append(@, EvUserCancel(Len(data) - s.count))]
    ELSE s

\* "report consumed len": UserCancel(-1, n) after break Err(n).
ReportCancel(s, data) ==
    IF s.status = "cancel"
    THEN [s EXCEPT !.evs = Append(@, EvUserCancel(s.count))]
    ELSE s

\* PassiveParser::feed_data(data, on_event) on the parser p, with a callback
\* that returns false on its cancelAt-th invocation.  The result holds the
\* parser afterwards (p), the events delivered (evs), the bytes processed
\* (count) and how the call ended (status).
FeedData(p, data, cancelAt) ==
    ReportCancel(Loop([p |-> p, count |-> 0, evs |-> << >>, ncb |-> 0,
                       cancelAt |-> cancelAt, cont |-> TRUE, status |-> "run"],
                      data),
                 data)

(***************************************************************************)
(* Byte streams.  A stream is described by the shapes of its files (and    *)
(* whether garbage bytes sit before its second local record) and is        *)
(* encoded record by record in the wire layout of the packed structs:      *)
(* local records, then the central directory, then the EOCD as the last    *)
(* 22 bytes.  A description d has the fields                               *)
(*   files    the shapes of the files                                      *)
(*   garbage  TRUE for glen bytes that match no signature in front of the  *)
(*            second local record                                          *)
(*   comment  the length of the archive comment behind the EOCD            *)
(*   bad      "none", or what the first central header's                   *)
(*            relative_offset_of_local_header points at instead of its     *)
(*            local header: "sig" a central header (another signature),    *)
(*            "short" the EOCD (fewer than 30 bytes are left)              *)
(*   split    total_entries_all_disk - total_entries_this_disk of the EOCD *)
(*   layout   "archive", or "dirfirst" for a stream that is one central    *)
(*            header followed by the local header it points to, "twice"    *)
(*            for the archive followed by itself, "short" for the first    *)
(*            cut bytes of the archive                                     *)
(*   kind     the byte source the stream is read through (see below)       *)
(***************************************************************************)
\* nl, xl, pl: name, extra-field and payload length; method, usize: the
\* compression_method and uncompressed_size fields; cxl, ccl: the extra and
\* comment length of the central header.
ShapeFull  == [nl |-> N,     xl |-> 1, pl |-> 2, method |-> 8, usize |-> 5,
               cxl |-> 1, ccl |-> 1]
ShapeEmpty == [nl |-> 0,     xl |-> 0, pl |-> 0, method |-> 0, usize |-> 0,
               cxl |-> 0, ccl |-> 0]
ShapeLong  == [nl |-> N + 1, xl |-> 0, pl |-> 1, method |-> 0, usize |-> 1,
               cxl |-> 0, ccl |-> 0]

ValidShapes == {ShapeFull, ShapeEmpty}
\* A file whose local record has a longer extra field than its central
\* header, and no central comment.
ShapeDiffer == [nl |-> N,     xl |-> 2, pl |-> 2, method |-> 0, usize |-> 2,
               cxl |-> 0, ccl |-> 0]
Shapes == ValidShapes \cup {ShapeLong}

FileSeqs(S) == UNION { [1..n -> S] : n \in 0..MaxFiles }

\* The k-th file's name, extra field and payload bytes (k from 1).
NameBytes(k, f)    == [j \in 1..f.nl |-> 96 + 8 * k + j]
ExtraBytes(k, f)   == [j \in 1..f.xl |-> 200 + j]
PayloadBytes(k, f) == [j \in 1..f.pl |-> 16 * k + j]

Garbage == << 222, 173, 190, 239 >>

GarbageBytes(n) == [j \in 1..n |-> Garbage[((j - 1) % 4) + 1]]

\* struct LocalFileHeader, followed by name, extra field and payload.
EncodeLocal(k, f) ==
    LE32(SIG_LOCAL_FILE_HEADER) \o LE16(20) \o LE16(0) \o LE16(f.method)
    \o LE16(0) \o LE16(0) \o LE32(0) \o LE32(f.pl) \o LE32(f.usize)
    \o LE16(f.nl) \o LE16(f.xl)
    \o NameBytes(k, f) \o ExtraBytes(k, f) \o PayloadBytes(k, f)

LocalRecordLen(f) == LOCAL_FILE_HEADER_LEN + f.nl + f.xl + f.pl

\* struct CentralFileHeader, followed by name, extra field and comment.
EncodeCentral(k, f, offset) ==
    LE32(SIG_CENTRAL_FILE_HEADER) \o LE16(20) \o LE16(20) \o LE16(0)
    \o LE16(f.method) \o LE16(0) \o LE16(0) \o LE32(0) \o LE32(f.pl)
    \o LE32(f.usize) \o LE16(f.nl) \o LE16(f.cxl) \o LE16(f.ccl) \o LE16(0)
    \o LE16(0) \o LE32(0) \o LE32(offset)
    \o NameBytes(k, f) \o [j \in 1..f.cxl |-> 210 + j] \o [j \in 1..f.ccl |-> 35]

CentralRecordLen(f) == CENTRAL_FILE_HEADER_LEN + f.nl + f.cxl + f.ccl

\* struct CentralDirEnd, followed by the archive comment.
EncodeEnd(n, cdSize, cdOffset, commentLen, split) ==
    LE32(SIG_CENTRAL_DIR_END) \o LE16(0) \o LE16(0) \o LE16(n) \o LE16(n + split)
    \o LE32(cdSize) \o LE32(cdOffset) \o LE16(commentLen)
    \o [j \in 1..commentLen |-> 33]

\* The garbage bytes in front of the k-th local record.
GarbageBefore(d, k) == IF d.garbage /\ k = 2 THEN d.glen ELSE 0

RECURSIVE LocalStart(_, _)
\* The offset of the k-th local header in the stream.
LocalStart(d, k) ==
    IF k = 1 THEN GarbageBefore(d, 1)
    ELSE LocalStart(d, k - 1) + LocalRecordLen(d.files[k - 1]) + GarbageBefore(d, k)

\* The offset just behind the k-th local record (its payload included).
LocalEnd(d, k) == LocalStart(d, k) + LocalRecordLen(d.files[k])

\* The offset of the first payload byte of the k-th file.
PayloadStart(d, k) == LocalEnd(d, k) - d.files[k].pl

CdOffset(d) == IF Len(d.files) = 0 THEN 0 ELSE LocalEnd(d, Len(d.files))

RECURSIVE EncodeLocals(_, _)
EncodeLocals(d, k) ==
    IF k = 0 THEN << >>
    ELSE EncodeLocals(d, k - 1)
         \o GarbageBytes(GarbageBefore(d, k))
         \o EncodeLocal(k, d.files[k])

RECURSIVE CentralStart(_, _)
\* The offset of the k-th central header in the stream (k = number of
\* files + 1: the offset of the EOCD).
CentralStart(d, k) ==
    IF k = 1 THEN CdOffset(d)
    ELSE CentralStart(d, k - 1) + CentralRecordLen(d.files[k - 1])

\* The relative_offset_of_local_header of the k-th central header.
RelativeOffset(d, k) ==
    IF k = 1 /\ d.bad = "sig" THEN CdOffset(d)
    ELSE IF k = 1 /\ d.bad = "short" THEN CentralStart(d, Len(d.files) + 1)
    ELSE LocalStart(d, k)

RECURSIVE EncodeCentrals(_, _)
EncodeCentrals(d, k) ==
    IF k = 0 THEN << >>
    ELSE EncodeCentrals(d, k - 1)
         \o EncodeCentral(k, d.files[k], RelativeOffset(d, k))

EncodeArchive(d) ==
    LET cd == EncodeCentrals(d, Len(d.files)) IN
    EncodeLocals(d, Len(d.files)) \o cd
    \o EncodeEnd(Len(d.files), Len(cd), CdOffset(d), d.comment, d.split)

Encode(d) ==
    IF d.layout = "dirfirst"
    THEN EncodeCentral(1, d.files[1], CentralRecordLen(d.files[1]))
         \o EncodeLocal(1, d.files[1])
    ELSE IF d.layout = "twice"
    THEN EncodeArchive(d) \o EncodeArchive(d)
    ELSE IF d.layout = "short"
    THEN SubSeq(EncodeArchive(d), 1, d.cut)
    ELSE EncodeArchive(d)

\* The valid archives whose names fit the N-byte name buffer, and every
\* stream of the model: the archives of files of any shape, and the valid
\* two-file ones with garbage between their two local records.
Plain(fs) ==
    [ files |-> fs, garbage |-> FALSE, glen |-> 0, comment |-> 0, bad |-> "none",
      split |-> 0, layout |-> "archive", kind |-> "std", cut |-> 0 ]

ValidDescs == { Plain(fs) : fs \in FileSeqs(ValidShapes) }

Descs ==
    { Plain(fs) : fs \in FileSeqs(Shapes) }
    \cup { [d EXCEPT !.garbage = TRUE, !.glen = 4] :
             d \in { v \in ValidDescs : Len(v.files) = 2 } }

\* The streams a SeekingParser is run on: those above; the same with a
\* one-byte archive comment, whose EOCD is not the last 22 bytes; the valid
\* archives with a first central header that points at no local header,
\* with an EOCD of a split archive, and read through a source that reports
\* no length; and a central header followed by its local header, read
\* through each kind of source.
MalformedDescs ==
    { [d EXCEPT !.bad = b] :
        d \in { v \in ValidDescs : Len(v.files) >= 1 }, b \in {"sig", "short"} }

DirFirstDescs ==
    { [Plain(<< f >>) EXCEPT !.layout = "dirfirst", !.kind = k] :
        f \in ValidShapes, k \in {"std", "nolen", "noseek"} }

\* Sources shorter than an end record: the first bytes of the empty archive.
ShortLens == {0, 4, CENTRAL_DIR_END_LEN - 1}

ShortDescs ==
    { [Plain(<< >>) EXCEPT !.layout = "short", !.cut = c] : c \in ShortLens }

SeekDescs ==
    Descs
    \cup ShortDescs
    \cup { [d EXCEPT !.comment = 1] : d \in Descs }
    \cup MalformedDescs
    \cup { [d EXCEPT !.split = 1] : d \in ValidDescs }
    \cup { [d EXCEPT !.kind = "nolen"] : d \in ValidDescs }
    \cup DirFirstDescs
    \cup { Plain(<< ShapeDiffer >>), Plain(<< ShapeFull, ShapeDiffer >>) }

(***************************************************************************)
(* The byte source of SeekingParser: the stream as a slice with a cursor.  *)
(* read(buf) copies the min(buf.len(), remaining) bytes at the cursor and  *)
(* moves the cursor behind them.  The kind of the source says what its     *)
(* Seek impl offers:                                                       *)
(*   "std"    std::io::Cursor or a file through the blanket impls:         *)
(*            seek(Start(n)) moves the cursor to n, also behind the end,   *)
(*            and stream_len() is Some(length)                             *)
(*   "nolen"  an impl with seek that keeps the trait's default stream_len: *)
(*            None                                                         *)
(*   "noseek" an impl that keeps both defaults: seek is                    *)
(*            Err("unimplemented") and leaves the cursor alone             *)
(***************************************************************************)
StreamRead(stream, at, len) ==
    LET n == IF at >= Len(stream) THEN 0 ELSE Min(len, Len(stream) - at) IN
    [n |-> n, bytes |-> SubSeq(stream, at + 1, at + n), pos |-> at + n]

\* Seek::stream_len: <<len>> for Some(len), << >> for None.
SourceStreamLen(kind, stream) == IF kind = "std" THEN << Len(stream) >> ELSE << >>

\* Seek::seek(SeekFrom::Start(target)) with the cursor at cur.
SourceSeek(kind, cur, target) ==
    IF kind = "noseek" THEN [ok |-> FALSE, pos |-> cur]
    ELSE [ok |-> TRUE, pos |-> target]

(***************************************************************************)
(* SeekingParser::new(stream), the stream's cursor at cur.  The result:    *)
(* the parser, the position the stream is left at, and whether the         *)
(* constructor panicked.  It is a set: stream_len - 22 on a stream shorter *)
(* than 22 bytes overflows u64, which panics in a build with overflow      *)
(* checks and wraps in one without (the seek then lands far behind the     *)
(* end, the read returns no byte, and the stream is rewound; or the source *)
(* refuses the target and stays where it is).                              *)
(***************************************************************************)
SeekingParserFields(nof, cdo) ==
    [ number_of_files          |-> nof,
      central_directory_offset |-> cdo,
      next_entry_offset        |-> 0 ]

SeekingParserNew(kind, stream, cur) ==
    IF SourceStreamLen(kind, stream) = << >>
    THEN { [sp |-> SeekingParserFields(<< >>, 0), pos |-> cur, panic |-> FALSE] }
    ELSE IF Len(stream) < CENTRAL_DIR_END_LEN
    THEN { [sp |-> SeekingParserFields(<< >>, 0), pos |-> cur, panic |-> TRUE],
           [sp |-> SeekingParserFields(<< >>, 0), pos |-> 0, panic |-> FALSE],
           [sp |-> SeekingParserFields(<< >>, 0), pos |-> cur, panic |-> FALSE] }
    ELSE LET r == StreamRead(stream, Len(stream) - CENTRAL_DIR_END_LEN,
                             CENTRAL_DIR_END_LEN)
         IN  IF r.n = CENTRAL_DIR_END_LEN
                /\ SignatureTryFrom(r.bytes) = [ok |-> TRUE, v |-> "CentralDirEnd"]
             THEN LET h == CentralDirEndFromBytes(r.bytes)[1] IN
                  { [sp |-> SeekingParserFields(<< h.total_entries_this_disk >>,
                                                h.central_directory_offset),
                     pos |-> h.central_directory_offset, panic |-> FALSE] }
             ELSE { [sp |-> SeekingParserFields(<< >>, 0), pos |-> 0,
                     panic |-> FALSE] }

(***************************************************************************)
(* SeekingParser::next().  A result: the parser afterwards, the stream     *)
(* position, the item (<< >> for None, <<file>> for Some(file)) and        *)
(* whether the call panicked: the slice file_name_buffer[..len] of the     *)
(* [u8; N] array panics when the central header's file_name_length > N.    *)
(* The results are a set: from_bytes reads the signature field through a   *)
(* pointer cast, and four bytes that are none of the three signatures are  *)
(* no value of the enum Signature (undefined behaviour): the build may     *)
(* take such a header for a mismatch or for a match.                       *)
(***************************************************************************)
\* The four bytes are a value of the enum Signature.
ValidDiscriminant(b) == SignatureTryFrom(b).ok

\* CentralFileHeader::from_bytes(b) as the build may evaluate it: the set
\* of its possible results.
CentralFileHeaderFromBytesAny(b) ==
    IF ValidDiscriminant(b) THEN { CentralFileHeaderFromBytes(b) }
    ELSE { << >>,
           CentralFileHeaderFromBytes(LE32(SIG_CENTRAL_FILE_HEADER) \o SubSeq(b, 5, Len(b))) }

\* LocalFileHeader::from_bytes(b) as the build may evaluate it.
LocalFileHeaderFromBytesAny(b) ==
    IF ValidDiscriminant(b) THEN { LocalFileHeaderFromBytes(b) }
    ELSE { << >>,
           LocalFileHeaderFromBytes(LE32(SIG_LOCAL_FILE_HEADER) \o SubSeq(b, 5, Len(b))) }

\* The LocalFile of a central header h after with_stream (stream_origin is
\* seek(Current(0)).unwrap_or(0)) and after the name has been read.
LocalFileOf(h, origin, name) ==
    [ info |-> [LocalFileInfoDefault EXCEPT
                  !.compression_method = CompressMethodFrom(h.compression_method),
                  !.compressed_size = h.compressed_size,
                  !.uncompressed_size = h.uncompressed_size,
                  !.file_name_buffer =
                      [i \in 1..N |-> IF i <= Len(name) THEN name[i] ELSE 0],
                  !.file_name_length = Len(name)],
      stream_origin   |-> origin,
      stream_position |-> origin ]

\* A variant of the step below: the payload is taken to start behind the
\* local header's name, the extra field not counted.
NextLocalHeader_ExtraNotSkipped(kind, stream, cur, sp1, h, file) ==
    LET rel == h.relative_offset_of_local_header
        r   == StreamRead(stream, SourceSeek(kind, cur, rel).pos,
                          LOCAL_FILE_HEADER_LEN)
    IN  { IF lh # << >>
          THEN LET off == rel + LOCAL_FILE_HEADER_LEN + lh[1].file_name_length IN
               [sp |-> sp1, pos |-> r.pos, panic |-> FALSE,
                item |-> << [file EXCEPT !.info.file_data_offset = off,
                                         !.stream_origin = off,
                                         !.stream_position = off] >>]
          ELSE [sp |-> sp1, pos |-> r.pos, panic |-> FALSE, item |-> << >>] :
          lh \in IF r.n = LOCAL_FILE_HEADER_LEN
                 THEN LocalFileHeaderFromBytesAny(r.bytes) ELSE { << >> } }

\* A variant of the step below: the payload is taken to start behind a
\* name and an extra field as long as the central header says.
NextLocalHeader_CentralLengths(kind, stream, cur, sp1, h, file) ==
    LET rel == h.relative_offset_of_local_header
        r   == StreamRead(stream, SourceSeek(kind, cur, rel).pos,
                          LOCAL_FILE_HEADER_LEN)
    IN  { IF lh # << >>
          THEN LET off == rel + LOCAL_FILE_HEADER_LEN + h.file_name_length
                            + h.extra_field_length IN
               [sp |-> sp1, pos |-> r.pos, panic |-> FALSE,
                item |-> << [file EXCEPT !.info.file_data_offset = off,
                                         !.stream_origin = off,
                                         !.stream_position = off] >>]
          ELSE [sp |-> sp1, pos |-> r.pos, panic |-> FALSE, item |-> << >>] :
          lh \in IF r.n = LOCAL_FILE_HEADER_LEN
                 THEN LocalFileHeaderFromBytesAny(r.bytes) ELSE { << >> } }

\* "seek to file data": read the local header the central header points
\* to and place the file behind its name and extra field.
NextLocalHeader(kind, stream, cur, sp1, h, file) ==
    LET rel == h.relative_offset_of_local_header
        r   == StreamRead(stream, SourceSeek(kind, cur, rel).pos,
                          LOCAL_FILE_HEADER_LEN)
    IN  { IF lh # << >>
          THEN LET off == rel + LocalFileHeaderLen(lh[1]) IN
               [sp |-> sp1, pos |-> r.pos, panic |-> FALSE,
                item |-> << [file EXCEPT !.info.file_data_offset = off,
                                         !.stream_origin = off,
                                         !.stream_position = off] >>]
          ELSE [sp |-> sp1, pos |-> r.pos, panic |-> FALSE, item |-> << >>] :
          lh \in IF r.n = LOCAL_FILE_HEADER_LEN
                 THEN LocalFileHeaderFromBytesAny(r.bytes) ELSE { << >> } }

\* A variant of the step below: next_entry_offset is left where it was.
NextCentralHeader_OffsetNotAdvanced(kind, stream, at, sp, ch) ==
    IF ch = << >>
    THEN { [sp |-> sp, pos |-> at, panic |-> FALSE, item |-> << >>] }
    ELSE IF ch[1].file_name_length > N
    THEN { [sp |-> sp, pos |-> at, panic |-> TRUE, item |-> << >>] }
    ELSE LET nr  == StreamRead(stream, at, ch[1].file_name_length)
             origin == IF SourceSeek(kind, at, at).ok THEN at ELSE 0
         IN  NextLocalHeader(kind, stream, nr.pos, sp, ch[1],
                             LocalFileOf(ch[1], origin, nr.bytes))

\* next() once the central header ch (<< >>: none) has been decoded from
\* the bytes that end at position at.
NextCentralHeader(kind, stream, at, sp, ch) ==
    IF ch = << >>
    THEN { [sp |-> sp, pos |-> at, panic |-> FALSE, item |-> << >>] }
    ELSE IF ch[1].file_name_length > N
    THEN { [sp |-> sp, pos |-> at, panic |-> TRUE, item |-> << >>] }
    ELSE LET nr  == StreamRead(stream, at, ch[1].file_name_length)
             sp1 == [sp EXCEPT !.next_entry_offset =
                                   @ + CentralFileHeaderLen(ch[1])]
             origin == IF SourceSeek(kind, at, at).ok THEN at ELSE 0
         IN  NextLocalHeader(kind, stream, nr.pos, sp1, ch[1],
                             LocalFileOf(ch[1], origin, nr.bytes))

SeekingParserNext(kind, stream, cur, sp) ==
    LET at == SourceSeek(kind, cur,
                         sp.central_directory_offset + sp.next_entry_offset).pos
        r  == StreamRead(stream, at, CENTRAL_FILE_HEADER_LEN)
    IN  UNION { NextCentralHeader(kind, stream, r.pos, sp, ch) :
                ch \in IF r.n = CENTRAL_FILE_HEADER_LEN
                       THEN CentralFileHeaderFromBytesAny(r.bytes) ELSE { << >> } }

(***************************************************************************)
(* LocalFile::read(buf) with a buffer of len bytes, the stream's cursor at *)
(* cur.  The result: the file afterwards, the stream position, and the     *)
(* bytes read, or the error.                                               *)
(***************************************************************************)
\* A variant of read: the source is read where it stands, without the seek
\* to the file's cursor.
LocalFileRead_NoSeek(kind, stream, cur, file, len) ==
    LET r == StreamRead(stream, cur, len) IN
    [file |-> [file EXCEPT !.stream_position = @ + r.n],
     pos |-> r.pos, ok |-> TRUE, bytes |-> r.bytes]

LocalFileRead(kind, stream, cur, file, len) ==
    LET sk == SourceSeek(kind, cur, file.stream_position) IN
    IF ~sk.ok
    THEN [file |-> file, pos |-> cur, ok |-> FALSE, bytes |-> << >>]
    ELSE LET r == StreamRead(stream, sk.pos, len) IN
         [file |-> [file EXCEPT !.stream_position = @ + r.n],
          pos |-> r.pos, ok |-> TRUE, bytes |-> r.bytes]

(***************************************************************************)
(* LocalFile::read_exact(buf) with a buffer of len bytes.  The stream's    *)
(* Read::read_exact is the provided method of the trait: it fills buf and  *)
(* returns Ok(0), which is what the cursor is advanced by; it does not     *)
(* return (hang) when the stream ends before buf is full.                  *)
(***************************************************************************)
LocalFileReadExact(kind, stream, cur, file, len) ==
    LET sk == SourceSeek(kind, cur, file.stream_position) IN
    IF ~sk.ok
    THEN [file |-> file, pos |-> cur, ok |-> FALSE, hang |-> FALSE, bytes |-> << >>]
    ELSE LET r == StreamRead(stream, sk.pos, len)
             bytes_read == 0
         IN  IF r.n < len
             THEN [file |-> file, pos |-> r.pos, ok |-> FALSE, hang |-> TRUE,
                   bytes |-> r.bytes]
             ELSE [file |-> [file EXCEPT !.stream_position = @ + bytes_read],
                   pos |-> r.pos, ok |-> TRUE, hang |-> FALSE, bytes |-> r.bytes]

(***************************************************************************)
(* The system: a caller that feeds a stream to one PassiveParser, or       *)
(* iterates over it with one SeekingParser and reads the entries it        *)
(* yields; a caller of Read::read_exact; a caller of Signature::try_from.  *)
(***************************************************************************)
VARIABLES
    desc,      \* the description of the stream (never read by the parsers)
    input,     \* the bytes of the stream
    pos,       \* the bytes the push parser has taken so far: the caller
               \* feeds input[pos+1..] next (after UserCancel(-1, n): data[n..])
    parser,    \* the PassiveParser
    events,    \* every event delivered to the callback so far, UserCancel
               \* excepted
    last,      \* the last feed_data call: where its slice started and how
               \* long it was, the events it delivered, the invocation on
               \* which the callback returned false (0: none), the bytes
               \* processed, its end
    mark,      \* the latest cancel on a LocalFileData event of an entry that
               \* had not ended when the next call began: entry index i,
               \* payload bytes k delivered so far, the number of events
               \* delivered up to it (at), the reported count n and the start
               \* of that call
    panicked,  \* a feed_data call has panicked
    seeking,   \* "none", or "new" once SeekingParser::new has run
    sp,        \* the SeekingParser
    streamPos, \* the position of the SeekingParser's stream
    yielded,   \* the files next() has yielded before its first None
    seekEnd,   \* "no", "none" once next() has returned None, "panic" once
               \* new() or next() has panicked
    items,     \* one record per call of next() that returned, in order:
               \* item is << >> for None and <<f>> for Some(f) as returned,
               \* from the position the call read its central header at,
               \* file is f as the caller's reads have left it, reads one
               \* record per read(buf) or read_exact(buf) on f: which of
               \* the two (exact), buf.len(), the stream's position before
               \* the call, f's cursor before (at) and after it (to),
               \* whether it returned Ok, the bytes it put into buf
    rx,        \* the Read::read_exact call in progress or done
    sig,       \* the argument and the result of Signature::try_from
    resets     \* the number of PassiveParser::reset calls so far

vars == << desc, input, pos, parser, events, last, mark, panicked,
           seeking, sp, streamPos, yielded, seekEnd, items, rx, sig, resets >>

pushVars == << pos, parser, events, last, mark, panicked, resets >>
seekVars == << seeking, sp, streamPos, yielded, seekEnd, items >>
auxVars  == << rx, sig >>

NoCall == [start |-> 0, len |-> 0, evs |-> << >>, falseAt |-> 0, count |-> 0,
           status |-> "none", moved |-> FALSE]

NoMark == [i |-> -1, k |-> 0, at |-> 0, n |-> 0, start |-> 0]

\* No read_exact call: see RxStart.
RxIdle ==
    [ src |-> << >>, errAt |-> -1, want |-> 0, i |-> 0, buf |-> << >>, pos |-> 0,
      tick |-> 0, status |-> "idle" ]

SigIdle == [value |-> << >>, result |-> << >>]

\* The stream, and the two parsers before their first call.
InitStream(D) ==
    /\ desc \in D
    /\ input = Encode(desc)
    /\ pos = 0
    /\ parser = PassiveParserDefault
    /\ events = << >>
    /\ last = NoCall
    /\ mark = NoMark
    /\ panicked = FALSE
    /\ resets = 0
    /\ seeking = "none"
    /\ sp = SeekingParserFields(<< >>, 0)
    /\ streamPos = 0
    /\ yielded = << >>
    /\ seekEnd = "no"
    /\ items = << >>

InitOn(D) == InitStream(D) /\ rx = RxIdle /\ sig = SigIdle

\* The longest event history the model follows: a callback that cancels on
\* the error of a too long name gets the same error again on every retry.
EventCap == 4 * MaxFiles + 2

NotCancel(evs) == SelectSeq(evs, LAMBDA e : e.type # "UserCancel")

\* What the caller learns from a call: the n of UserCancel(-1, n), or that
\* the whole slice was taken.
Reported(r, len) ==
    IF r.evs # << >> /\ r.evs[Len(r.evs)].type = "UserCancel"
    THEN r.evs[Len(r.evs)].n
    ELSE len

\* The call r ended with the callback returning false on a LocalFileData.
CancelOnData(r) ==
    /\ r.status = "cancel"
    /\ Len(r.evs) >= 2
    /\ r.evs[Len(r.evs) - 1].type = "LocalFileData"

\* The caller's bookkeeping after the call r on the len bytes at pos, in
\* which the callback returned false on its cancelAt-th invocation (0: it
\* did not).  After UserCancel(-1, n) the caller resubmits data[n..].
Recorded(r, len, cancelAt) ==
    /\ parser' = r.p
    /\ events' = events \o NotCancel(r.evs)
    /\ last' = [start |-> pos, len |-> len, evs |-> r.evs, falseAt |-> cancelAt,
                count |-> r.count, status |-> r.status,
                moved |-> (r.p # parser)]
    /\ mark' = IF CancelOnData(r)
               THEN LET e == r.evs[Len(r.evs) - 1] IN
                    [i |-> e.index, k |-> e.offset + Len(e.data),
                     at |-> Len(events) + Len(r.evs) - 1,
                     n |-> Reported(r, len), start |-> pos]
               ELSE IF mark.i >= 0 /\ parser.localfile_index > mark.i
                    THEN NoMark ELSE mark
    /\ panicked' = (r.status = "panic")
    /\ resets' = resets
    /\ pos' = IF r.status = "panic" THEN pos ELSE pos + Reported(r, len)

\* The same, as far as the model follows a history.
AfterFeed(r, len, cancelAt) ==
    /\ Len(events) + Len(NotCancel(r.evs)) <= EventCap
    /\ Recorded(r, len, cancelAt)

\* The caller passes the next len bytes to feed_data.  The callback
\* returns true throughout (the call r0), or, when cancel is allowed, false
\* on one of its first maxCancel invocations.
Feed(len, maxCancel) ==
    /\ seeking = "none"
    /\ ~panicked
    /\ len >= 1
    /\ pos + len <= Len(input)
    /\ LET data == SubSeq(input, pos + 1, pos + len)
           r0   == FeedData(parser, data, 0)
       IN  \E c \in 0..Min(maxCancel, r0.ncb) :
              AfterFeed(IF c = 0 THEN r0 ELSE FeedData(parser, data, c), len, c)
    /\ UNCHANGED << desc, input >>
    /\ UNCHANGED seekVars
    /\ UNCHANGED auxVars

\* The slices a caller passes: one byte, a medium chunk, a slice that ends
\* one byte into the payload of a record, and all that is left.
FeedByte(m)  == Feed(1, m)
FeedChunk(m) == Feed(ChunkLen, m)
FeedSplit(m) ==
    \E f \in 1..Len(desc.files) : Feed(PayloadStart(desc, f) + 1 - pos, m)
FeedRest(m)  == Feed(Len(input) - pos, m)

\* The caller passes the next len bytes with a callback that always
\* returns true, however many events the call delivers.
FeedAll(len) ==
    /\ seeking = "none"
    /\ ~panicked
    /\ len >= 1
    /\ pos + len <= Len(input)
    /\ Recorded(FeedData(parser, SubSeq(input, pos + 1, pos + len), 0), len, 0)
    /\ UNCHANGED << desc, input >>
    /\ UNCHANGED seekVars
    /\ UNCHANGED auxVars

\* A variant of reset that leaves the entry index where it is.
Reset_KeepsIndex(p) ==
    [PassiveParserDefault EXCEPT !.localfile_index = p.localfile_index]

\* A variant of reset that leaves the state where it is.
Reset_KeepsState(p) ==
    [PassiveParserDefault EXCEPT !.state = p.state]

\* PassiveParser::reset(&mut self)
Reset(p) ==
    [p EXCEPT !.state = RecvHeaderState("HeaderSignature", 4),
              !.zip_file_comment = << >>,
              !.buffer = << >>,
              !.localfile_info = << >>,
              !.localfile_index = 0,
              !.centralfile_index = 0,
              !.file_name_index = 0,
              !.file_name_len = 0,
              !.extra_field_index = 0,
              !.extra_field_len = 0,
              !.file_data_index = 0,
              !.file_data_len = 0,
              !.central_file_header_index = 0,
              !.central_file_header_len = 0,
              !.central_dir_end_index = 0,
              !.central_dir_end_len = 0]

\* The caller resets a parser that has taken some bytes, between two calls,
\* and starts over with the first byte of the stream.
ResetParser ==
    /\ seeking = "none"
    /\ ~panicked
    /\ pos > 0
    /\ resets < MaxResets
    /\ parser' = Reset(parser)
    /\ resets' = resets + 1
    /\ pos' = 0
    /\ events' = << >>
    /\ last' = [NoCall EXCEPT !.status = "reset", !.start = pos]
    /\ mark' = NoMark
    /\ panicked' = FALSE
    /\ UNCHANGED << desc, input >>
    /\ UNCHANGED seekVars
    /\ UNCHANGED auxVars

Init == InitOn(Descs)

Next ==
    \/ FeedByte(MaxCancelAt)
    \/ FeedChunk(MaxCancelAt)
    \/ FeedSplit(MaxCancelAt)
    \/ FeedRest(MaxCancelAt)

Spec == Init /\ [][Next]_vars

\* The same caller with a callback that always returns true.
NextTrue == FeedByte(0) \/ FeedChunk(0) \/ FeedSplit(0) \/ FeedRest(0)

SpecTrue == Init /\ [][NextTrue]_vars

\* Valid archives whose names fit, callback always true.
InitValid == InitOn(ValidDescs)

SpecValid == InitValid /\ [][NextTrue]_vars

\* Two valid records with a run of 1..MaxGarbage garbage bytes between
\* them, fed byte by byte up to some point and then in one slice.
ResyncDescs ==
    { [d EXCEPT !.garbage = TRUE, !.glen = g] :
        d \in { v \in ValidDescs : Len(v.files) = 2 }, g \in 1..MaxGarbage }

InitResync == InitOn(ResyncDescs)

NextResync == FeedAll(1) \/ FeedAll(Len(input) - pos)

SpecResync == InitResync /\ [][NextResync]_vars

\* A valid archive, with or without an archive comment, followed by a
\* second copy of itself, fed byte by byte up to some point and then in one
\* slice, with a callback that always returns true.
ConcatDescs ==
    { [d EXCEPT !.layout = "twice", !.comment = c] :
        d \in ValidDescs, c \in {0, 1} }

InitConcat == InitOn(ConcatDescs)

NextConcat == FeedAll(1) \/ FeedAll(Len(input) - pos)

SpecConcat == InitConcat /\ [][NextConcat]_vars

\* The valid archives without and with a comment of two bytes, fed
\* byte by byte up to some point and then in one slice, with a callback
\* that always returns true, by a caller who may reset the parser between
\* two calls.
ResetDescs == { [d EXCEPT !.comment = c] : d \in ValidDescs, c \in {0, 2} }

InitReset == InitOn(ResetDescs)

NextReset ==
    \/ FeedAll(1)
    \/ FeedAll(Len(input) - pos)
    \/ ResetParser

SpecReset == InitReset /\ [][NextReset]_vars

\* Every stream of the push parser, fed byte by byte up to some point and
\* then in one slice with a callback that may cancel, by a caller who may
\* reset the parser between two calls.
InitResetAny == InitOn(Descs \cup ResetDescs)

NextResetAny == FeedByte(MaxCancelAt) \/ FeedRest(MaxCancelAt) \/ ResetParser

SpecResetAny == InitResetAny /\ [][NextResetAny]_vars

\* let parser = SeekingParser::new(&mut stream)
SeekNew ==
    /\ seeking = "none"
    /\ \E r \in SeekingParserNew(desc.kind, input, streamPos) :
         /\ sp' = r.sp
         /\ streamPos' = r.pos
         /\ seekEnd' = IF r.panic THEN "panic" ELSE "no"
    /\ seeking' = "new"
    /\ UNCHANGED << desc, input, yielded, items >>
    /\ UNCHANGED pushVars
    /\ UNCHANGED auxVars

\* parser.next(), also after it has returned None.
SeekNext ==
    /\ seeking = "new"
    /\ seekEnd # "panic"
    /\ Len(items) < MaxFiles + 2
    /\ \E r \in SeekingParserNext(desc.kind, input, streamPos, sp) :
       /\ sp' = r.sp
       /\ streamPos' = r.pos
       /\ yielded' = IF r.item # << >> /\ seekEnd = "no"
                     THEN Append(yielded, r.item[1]) ELSE yielded
       /\ seekEnd' = IF r.panic THEN "panic"
                     ELSE IF r.item = << >> THEN "none" ELSE seekEnd
       /\ items' = IF r.panic THEN items
                   ELSE Append(items,
                               [ item |-> r.item, file |-> r.item,
                                 reads |-> << >>,
                                 from |-> SourceSeek(desc.kind, streamPos,
                                              sp.central_directory_offset
                                                + sp.next_entry_offset).pos ])
    /\ UNCHANGED << desc, input, seeking >>
    /\ UNCHANGED pushVars
    /\ UNCHANGED auxVars

\* The number of read calls so far.
RECURSIVE ReadsIn(_, _)
ReadsIn(its, n) == IF n = 0 THEN 0 ELSE ReadsIn(its, n - 1) + Len(its[n].reads)
ReadsDone == ReadsIn(items, Len(items))

\* file.read(&mut buf) on the k-th item, with a buffer of len bytes.
SeekRead(k, len) ==
    /\ seeking = "new"
    /\ seekEnd # "panic"
    /\ k \in 1..Len(items)
    /\ items[k].file # << >>
    /\ ReadsDone < MaxReads
    /\ LET r == LocalFileRead(desc.kind, input, streamPos, items[k].file[1], len) IN
       /\ items' = [items EXCEPT
                      ![k].file = << r.file >>,
                      ![k].reads = Append(@, [ exact |-> FALSE, len |-> len,
                                               cur |-> streamPos,
                                               at |-> items[k].file[1].stream_position,
                                               to |-> r.file.stream_position,
                                               ok |-> r.ok, bytes |-> r.bytes ])]
       /\ streamPos' = r.pos
    /\ UNCHANGED << desc, input, seeking, sp, yielded, seekEnd >>
    /\ UNCHANGED pushVars
    /\ UNCHANGED auxVars

\* The stream is a ZIP archive of one disk, each central header naming its
\* local header, read through a source with every Seek method.
WellFormed ==
    /\ desc.layout = "archive"
    /\ desc.kind = "std"
    /\ desc.bad = "none"
    /\ desc.split = 0

\* file.read_exact(&mut buf) on the k-th item, with a buffer of len bytes.
\* A call that does not return leaves the caller inside it.
SeekReadExact(k, len) ==
    /\ seeking = "new"
    /\ seekEnd # "panic"
    /\ k \in 1..Len(items)
    /\ items[k].file # << >>
    /\ ReadsDone < MaxReads
    /\ LET r == LocalFileReadExact(desc.kind, input, streamPos,
                                   items[k].file[1], len) IN
       /\ items' = [items EXCEPT
                      ![k].file = << r.file >>,
                      ![k].reads = Append(@, [ exact |-> TRUE, len |-> len,
                                               cur |-> streamPos,
                                               at |-> items[k].file[1].stream_position,
                                               to |-> r.file.stream_position,
                                               ok |-> r.ok, bytes |-> r.bytes ])]
       /\ streamPos' = r.pos
       /\ seeking' = IF r.hang THEN "hung" ELSE seeking
    /\ UNCHANGED << desc, input, sp, yielded, seekEnd >>
    /\ UNCHANGED pushVars
    /\ UNCHANGED auxVars

InitSeek == InitOn(SeekDescs)

NextSeek ==
    \/ SeekNew
    \/ SeekNext
    \/ \E k \in 1..(MaxFiles + 2), len \in 1..MaxReadLen : SeekRead(k, len)

SpecSeek == InitSeek /\ [][NextSeek]_vars

\* The same caller on the valid archives, reading the entries with read
\* and with read_exact.
InitExact == InitOn(ValidDescs \cup DirFirstDescs)

NextExact ==
    \/ NextSeek
    \/ \E k \in 1..(MaxFiles + 2), len \in 1..MaxReadLen : SeekReadExact(k, len)

SpecExact == InitExact /\ [][NextExact]_vars

(***************************************************************************)
(* Signature::try_from(value: &[u8]): the slices are all byte sequences of *)
(* up to MaxSigLen bytes over the bytes that occur in the three            *)
(* signatures, so that every signature, every mixture of them and every    *)
(* byte order occurs, with and without bytes behind them.                  *)
(***************************************************************************)
SigBytes == {80, 75, 1, 2, 3, 4, 5, 6}

SigInputs == UNION { [1..n -> SigBytes] : n \in 0..MaxSigLen }

InitSig ==
    /\ InitStream({ Plain(<< >>) })
    /\ rx = RxIdle
    /\ sig \in { [value |-> v, result |-> << >>] : v \in SigInputs }

\* let r = Signature::try_from(value)
SigTryFrom ==
    /\ sig.result = << >>
    /\ sig' = [sig EXCEPT !.result = << SignatureTryFrom(sig.value) >>]
    /\ UNCHANGED << desc, input, rx >>
    /\ UNCHANGED pushVars
    /\ UNCHANGED seekVars

NextSig == SigTryFrom

SpecSig == InitSig /\ [][NextSig]_vars

(***************************************************************************)
(* Read::read_exact(buf), the provided method of the trait, over a source  *)
(* whose read is the implementor's.  The source holds the bytes src, its   *)
(* cursor at pos; read copies at least one and at most buf.len() of the    *)
(* bytes that are left, returns Ok(0) when none is left (as std::io::Read  *)
(* does at the end of a file), and returns Err when its cursor is at errAt *)
(* (-1: it never fails).  want is buf.len(), i the local of the loop, buf  *)
(* the bytes written to buf[..i], tick the number of read calls modulo 2,  *)
(* status "run" inside the loop, "ok" after Ok(0), "err" after Err(e).     *)
(***************************************************************************)
RxStart(src, want, errAt) ==
    [ src |-> src, errAt |-> errAt, want |-> want, i |-> 0, buf |-> << >>,
      pos |-> 0, tick |-> 0, status |-> "run" ]

\* The results self.read(&mut buf[i..]) may give: the numbers of bytes, or
\* -1 for Err.
SourceReads(x) ==
    IF x.pos = x.errAt THEN { -1 }
    ELSE IF x.pos >= Len(x.src) THEN { 0 }
    ELSE 1..Min(x.want - x.i, Len(x.src) - x.pos)

\* One iteration of "while i < buf.len()".
ReadExactStep ==
    /\ rx.status = "run"
    /\ rx.i < rx.want
    /\ \E n \in SourceReads(rx) :
          rx' = IF n < 0
                THEN [rx EXCEPT !.status = "err", !.tick = 1 - @]
                ELSE [rx EXCEPT !.i = @ + n,
                                !.buf = @ \o SubSeq(rx.src, rx.pos + 1, rx.pos + n),
                                !.pos = @ + n,
                                !.tick = 1 - @]
    /\ UNCHANGED << desc, input, sig >>
    /\ UNCHANGED pushVars
    /\ UNCHANGED seekVars

\* The loop condition fails: Ok(0).
ReadExactReturn ==
    /\ rx.status = "run"
    /\ rx.i >= rx.want
    /\ rx' = [rx EXCEPT !.status = "ok"]
    /\ UNCHANGED << desc, input, sig >>
    /\ UNCHANGED pushVars
    /\ UNCHANGED seekVars

\* The calls: every source of up to MaxSrc bytes, every buffer of up to
\* MaxBuf bytes, a read that never fails or fails at one cursor.
RxSources == { [j \in 1..n |-> 64 + j] : n \in 0..MaxSrc }

InitReadExact ==
    /\ InitStream({ Plain(<< >>) })
    /\ sig = SigIdle
    /\ rx \in { RxStart(src, want, errAt) :
                   src \in RxSources, want \in 0..MaxBuf, errAt \in -1..MaxSrc }

NextReadExact == ReadExactStep \/ ReadExactReturn

\* The loop is sequential code: an iteration that can be taken is taken.
SpecReadExact ==
    InitReadExact /\ [][NextReadExact]_vars /\ WF_vars(NextReadExact)


(***************************************************************************)
(* Vocabulary of the properties.                                           *)
(***************************************************************************)
\* The bytes handed to feed_data so far (a panicking call took its slice
\* with it).
Handed == IF panicked THEN last.start + last.len ELSE pos

\* Both engines on the same bytes: the caller feeds the whole stream to a
\* PassiveParser with a callback that always returns true, then iterates
\* over it with a SeekingParser and reads the entries.
NextBoth ==
    \/ FeedRest(0)
    \/ Handed = Len(input) /\ NextSeek

SpecBoth == Init /\ [][NextBoth]_vars

\* The LocalFileData events of entry i, in the order of delivery.
DataOf(evs, i) ==
    SelectSeq(evs, LAMBDA e : e.type = "LocalFileData" /\ e.index = i)

RECURSIVE Concat(_)
\* The concatenated slices of a sequence of LocalFileData events.
Concat(ds) == IF ds = << >> THEN << >> ELSE Head(ds).data \o Concat(Tail(ds))

RECURSIVE Merge(_)
\* An event sequence with adjacent, contiguous LocalFileData events of one
\* entry concatenated.
Merge(evs) ==
    IF Len(evs) <= 1 THEN evs
    ELSE LET e == Head(evs)
             m == Merge(Tail(evs))
         IN  IF /\ e.type = "LocalFileData"
                /\ m[1].type = "LocalFileData"
                /\ m[1].index = e.index
                /\ m[1].offset = e.offset + Len(e.data)
             THEN << [e EXCEPT !.data = e.data \o m[1].data] >> \o Tail(m)
             ELSE << e >> \o m

\* The number of events of a type that carry entry index i.
CountOf(evs, type, i) ==
    Cardinality({ k \in 1..Len(evs) : evs[k].type = type /\ evs[k].index = i })

\* The header fields of the f-th local record, read from the stream.
DeclaredNameLen(f)  == U16(input, LocalStart(desc, f) + 26)
DeclaredExtraLen(f) == U16(input, LocalStart(desc, f) + 28)
DeclaredSize(f)     == U32(input, LocalStart(desc, f) + 18)

\* The payload of the f-th local record: the compressed_size bytes behind
\* its fixed header, name and extra field.
PayloadOf(f) ==
    SubSeq(input,
           LocalStart(desc, f) + LOCAL_FILE_HEADER_LEN + DeclaredNameLen(f)
               + DeclaredExtraLen(f) + 1,
           LocalStart(desc, f) + LOCAL_FILE_HEADER_LEN + DeclaredNameLen(f)
               + DeclaredExtraLen(f) + DeclaredSize(f))

\* The info a LocalFileHeader event of the f-th record should carry.
InfoOf(f) ==
    [ name               |-> SubSeq(input,
                                LocalStart(desc, f) + LOCAL_FILE_HEADER_LEN + 1,
                                LocalStart(desc, f) + LOCAL_FILE_HEADER_LEN
                                    + DeclaredNameLen(f)),
      compression_method |-> CompressMethodFrom(U16(input, LocalStart(desc, f) + 8)),
      compressed_size    |-> DeclaredSize(f),
      uncompressed_size  |-> U32(input, LocalStart(desc, f) + 22) ]

\* The events of one complete entry, its payload in one LocalFileData.
EntryEvents(f) ==
    << [type |-> "LocalFileHeader", index |-> f - 1, info |-> InfoOf(f)] >>
    \o (IF DeclaredSize(f) = 0 THEN << >>
        ELSE << EvLocalFileData(f - 1, 0, PayloadOf(f)) >>)
    \o << EvLocalFileEnd(f - 1) >>

\* feed_data on a fresh parser with the first n bytes of the stream in a
\* single call, callback always true.
OneShot(n) == FeedData(PassiveParserDefault, SubSeq(input, 1, n), 0)

(***************************************************************************)
(* C1.  For every valid archive whose names fit (each local record is      *)
(* followed by further bytes: the central directory), fed in any chunking  *)
(* with a callback that always returns true, the events of entry i are     *)
(* exactly one LocalFileHeader(i), then zero or more LocalFileData of i,   *)
(* then exactly one LocalFileEnd(i), and no event of entry i+1 comes       *)
(* before LocalFileEnd(i).  Checked under SpecValid.                       *)
(***************************************************************************)
C1_EntryLifecycle ==
    /\ \A k \in 1..Len(events) :
         LET e == events[k] IN
         /\ e.type \in {"LocalFileHeader", "LocalFileData", "LocalFileEnd"}
         /\ e.index \in 0..(Len(desc.files) - 1)
         /\ e.type = "LocalFileHeader" =>
              \/ k = 1 /\ e.index = 0
              \/ k > 1 /\ events[k - 1] = EvLocalFileEnd(e.index - 1)
         /\ e.type \in {"LocalFileData", "LocalFileEnd"} =>
              /\ k > 1
              /\ events[k - 1].type \in {"LocalFileHeader", "LocalFileData"}
              /\ events[k - 1].index = e.index
    /\ \A f \in 1..Len(desc.files) :
         /\ CountOf(events, "LocalFileHeader", f - 1) <= 1
         /\ CountOf(events, "LocalFileEnd", f - 1) <= 1
         /\ pos > LocalEnd(desc, f) =>
              /\ CountOf(events, "LocalFileHeader", f - 1) = 1
              /\ CountOf(events, "LocalFileEnd", f - 1) = 1

C1_Witness ==
    /\ pos = Len(input)
    /\ Len(desc.files) = 2
    /\ Len(DataOf(events, 0)) = 2
    /\ CountOf(events, "LocalFileData", 1) >= 1
    /\ events[Len(events)] = EvLocalFileEnd(1)

(***************************************************************************)
(* C2.  For every entry and every chunking, the LocalFileData events of    *)
(* the entry reconstruct its payload: the first offset is 0, each later    *)
(* offset is the previous offset plus the previous slice length, the       *)
(* slices concatenate to the bytes behind header, name and extra field,    *)
(* and once the whole record has been handed to the parser exactly         *)
(* compressed_size bytes have been delivered.  Checked under Spec.         *)
(***************************************************************************)
C2_PayloadReconstructed ==
    \A f \in 1..Len(desc.files) :
       LET ds  == DataOf(events, f - 1)
           all == Concat(ds)
       IN  /\ ds # << >> => ds[1].offset = 0
           /\ \A j \in 1..(Len(ds) - 1) :
                ds[j + 1].offset = ds[j].offset + Len(ds[j].data)
           /\ Len(all) <= DeclaredSize(f)
           /\ all = SubSeq(PayloadOf(f), 1, Len(all))
           /\ Handed >= LocalEnd(desc, f) => all = PayloadOf(f)

(***************************************************************************)
(* C3.  Chunking independence, callback always true: whatever the split    *)
(* of the bytes handed over so far, the events (adjacent LocalFileData     *)
(* concatenated) and the parser's state are those of handing the same      *)
(* bytes to a fresh parser in a single call.  Checked under SpecTrue.      *)
(***************************************************************************)
C3_ChunkingIndependent ==
    LET one == OneShot(Handed) IN
    /\ Merge(events) = Merge(NotCancel(one.evs))
    /\ parser = one.p
    /\ panicked <=> one.status = "panic"

(***************************************************************************)
(* C4.  When the callback returns false for an event of a call, no further *)
(* parsing event is delivered in that call and exactly one                 *)
(* UserCancel(-1, n) follows as the last event, n <= data.len() being the  *)
(* bytes of the slice the parser has taken; when it never returns false,   *)
(* the call takes all of its bytes and emits no UserCancel.  Checked       *)
(* under Spec.                                                             *)
(***************************************************************************)
C4_CancelReporting ==
    last.status # "none" =>
       IF last.falseAt > 0
       THEN /\ Len(last.evs) = last.falseAt + 1
            /\ last.evs[Len(last.evs)] = EvUserCancel(last.count)
            /\ last.count <= last.len
            /\ pos = last.start + last.count
            /\ \A k \in 1..last.falseAt : last.evs[k].type # "UserCancel"
       ELSE /\ last.count = last.len
            /\ pos = last.start + last.len
            /\ \A k \in 1..Len(last.evs) : last.evs[k].type # "UserCancel"

(***************************************************************************)
(* C5.  Cancel and resume loses and repeats nothing: with the caller       *)
(* resubmitting data[n..] after every UserCancel(-1, n), once the reported *)
(* counts and the final call add up to the length of the stream, the       *)
(* events and the parser are those of one uninterrupted call, and every    *)
(* payload byte has been delivered exactly once.  Checked under Spec.      *)
(***************************************************************************)
C5_CancelResume ==
    (pos = Len(input) /\ ~panicked) =>
       LET one == OneShot(Len(input)) IN
       /\ one.status = "ok"
       /\ Merge(events) = Merge(one.evs)
       /\ parser = one.p
       /\ \A f \in 1..Len(desc.files) :
            LET ds == DataOf(events, f - 1) IN
            /\ Concat(ds) = PayloadOf(f)
            /\ \A j \in 1..Len(ds) :
                 ds[j].offset = Len(Concat(SubSeq(ds, 1, j - 1)))

C5_Witness ==
    /\ pos = Len(input)
    /\ ~panicked
    /\ mark.i >= 0
    /\ mark.k < DeclaredSize(mark.i + 1)
    /\ last.start > mark.start

(***************************************************************************)
(* C6.  Cancellation in the middle of a payload: when the callback returns *)
(* false on the LocalFileData that brings the delivered payload of entry i *)
(* to k bytes, the reported count is the bytes of that call up to and      *)
(* including the k-th payload byte (fixed header + name + extra + k when   *)
(* the call began at the record), and the tail fed afterwards delivers the *)
(* remaining compressed_size - k bytes from offset k on, followed by       *)
(* LocalFileEnd(i).  Checked under Spec.                                   *)
(***************************************************************************)
C6_MidPayloadCancel ==
    mark.i >= 0 =>
       LET f     == mark.i + 1
           size  == DeclaredSize(f)
           after == SubSeq(events, mark.at + 1, Len(events))
           rest  == (IF mark.k < size
                     THEN << EvLocalFileData(mark.i, mark.k,
                                             SubSeq(PayloadOf(f), mark.k + 1, size)) >>
                     ELSE << >>)
                    \o << EvLocalFileEnd(mark.i) >>
       IN  /\ events[mark.at].type = "LocalFileData"
           /\ events[mark.at].offset + Len(events[mark.at].data) = mark.k
           /\ mark.n = PayloadStart(desc, f) + mark.k - mark.start
           /\ mark.start = LocalStart(desc, f) =>
                mark.n = LOCAL_FILE_HEADER_LEN + DeclaredNameLen(f)
                         + DeclaredExtraLen(f) + mark.k
           /\ after # << >> =>
                IF mark.k < size
                THEN /\ after[1].type = "LocalFileData"
                     /\ after[1].index = mark.i
                     /\ after[1].offset = mark.k
                ELSE after[1] = EvLocalFileEnd(mark.i)
           /\ pos > LocalEnd(desc, f) =>
                SubSeq(Merge(after), 1, Len(rest)) = rest

C6_Witness ==
    /\ mark.i >= 0
    /\ mark.k >= 1
    /\ mark.k < DeclaredSize(mark.i + 1)
    /\ mark.start = LocalStart(desc, mark.i + 1)
    /\ events[Len(events)] = EvLocalFileEnd(mark.i)

(***************************************************************************)
(* C7.  A local header whose declared name length exceeds N produces       *)
(* ParsingError(index, LocalFileNameTooLong(index, declared_len)), no      *)
(* LocalFileHeader event is emitted for that entry, and no truncated name  *)
(* is exposed.  Checked under Spec.                                        *)
(***************************************************************************)
C7_NameTooLongReported ==
    \A f \in 1..Len(desc.files) :
       DeclaredNameLen(f) > N =>
          /\ CountOf(events, "LocalFileHeader", f - 1) = 0
          /\ (pos > LocalStart(desc, f) + LOCAL_FILE_HEADER_LEN
              \/ (panicked /\ parser.localfile_index = f - 1)) =>
                \E k \in 1..Len(events) :
                   events[k] = EvParsingError(f - 1,
                                  ErrLocalFileNameTooLong(f - 1, DeclaredNameLen(f)))
          /\ (parser.localfile_index = f - 1
              /\ parser.state.tag = "RecvLocalFileName") =>
                /\ parser.localfile_info # << >>
                /\ parser.localfile_info[1].file_name_length = 0

C7_Witness ==
    /\ Len(desc.files) = 2
    /\ DeclaredNameLen(2) > N
    /\ pos > LocalStart(desc, 2) + LOCAL_FILE_HEADER_LEN
    /\ events[Len(events)] = EvParsingError(1, ErrLocalFileNameTooLong(1, N + 1))

(***************************************************************************)
(* C8.  After a LocalFileNameTooLong error for entry i on which the        *)
(* callback returns true the parser keeps running: it does not fail, and   *)
(* once the record and a further byte have been handed over it has emitted *)
(* LocalFileEnd(i).  Checked under SpecTrue.                               *)
(***************************************************************************)
C8_NameTooLongContinues ==
    \A f \in 1..Len(desc.files) :
       DeclaredNameLen(f) > N =>
          /\ ~(panicked /\ parser.localfile_index = f - 1)
          /\ Handed > LocalEnd(desc, f) =>
               CountOf(events, "LocalFileEnd", f - 1) = 1

(***************************************************************************)
(* C9.  Garbage between entries: with four bytes that match no signature   *)
(* between two valid local records and a callback that always returns      *)
(* true, the parser emits the first entry, LocalFileEnd(0), then           *)
(* ParsingError(1, InvalidSignature), then the second entry complete:      *)
(* LocalFileHeader(1), its payload, LocalFileEnd(1).  Checked under        *)
(* SpecTrue.                                                               *)
(***************************************************************************)
C9_GarbageBetweenEntries ==
    (/\ desc.garbage
     /\ Len(desc.files) = 2
     /\ DeclaredNameLen(1) <= N
     /\ DeclaredNameLen(2) <= N) =>
       LET want == EntryEvents(1)
                   \o << EvParsingError(1, ErrSimple("InvalidSignature")) >>
                   \o EntryEvents(2)
           got  == Merge(events)
       IN  /\ ~panicked
           /\ Len(got) <= Len(want)
           /\ \A k \in 1..Len(got) :
                \/ got[k] = want[k]
                \/ /\ k = Len(got)
                   /\ got[k].type = "LocalFileData"
                   /\ want[k].type = "LocalFileData"
                   /\ got[k].index = want[k].index
                   /\ got[k].offset = 0
                   /\ got[k].data = SubSeq(want[k].data, 1, Len(got[k].data))
           /\ pos > LocalEnd(desc, 2) => got = want

C9_Witness ==
    /\ desc.garbage
    /\ Len(desc.files) = 2
    /\ DeclaredSize(2) > 0
    /\ pos > LocalEnd(desc, 2)
    /\ CountOf(events, "ParsingError", 1) = 1
    /\ CountOf(events, "LocalFileEnd", 1) = 1

\* The entries next() has returned so far, over all its calls.
IsSome(it) == it.item # << >>
SomeItems == SelectSeq(items, IsSome)

\* The central file headers as they lie in the stream: the first at the
\* parser's central_directory_offset, each next one behind the name, the
\* extra field and the comment of the one before.
RECURSIVE CentralHeaderOffset(_)
CentralHeaderOffset(k) ==
    IF k = 1 THEN sp.central_directory_offset
    ELSE LET o == CentralHeaderOffset(k - 1) IN
         IF o + CENTRAL_FILE_HEADER_LEN > Len(input) THEN Len(input)
         ELSE o + CENTRAL_FILE_HEADER_LEN + U16(input, o + 28)
                + U16(input, o + 30) + U16(input, o + 32)

\* The entry f carries what the central header at offset o says.
FromCentralHeaderAt(f, o) ==
    /\ o + CENTRAL_FILE_HEADER_LEN <= Len(input)
    /\ U32Is(input, o, SIG_CENTRAL_FILE_HEADER)
    /\ f.info.compression_method = CompressMethodFrom(U16(input, o + 10))
    /\ f.info.compressed_size = U32(input, o + 20)
    /\ f.info.uncompressed_size = U32(input, o + 24)
    /\ f.info.file_name_length = U16(input, o + 28)
    /\ SubSeq(f.info.file_name_buffer, 1, f.info.file_name_length)
         = SubSeq(input, o + CENTRAL_FILE_HEADER_LEN + 1,
                  o + CENTRAL_FILE_HEADER_LEN + U16(input, o + 28))

(***************************************************************************)
(* C10.  For every valid archive whose EOCD is the last 22 bytes of the    *)
(* stream, the number of entries the SeekingParser yields before its       *)
(* first None is the total entry count of the EOCD, the value exposed as   *)
(* number_of_files.  Checked under SpecSeek.                               *)
(***************************************************************************)
C10_YieldsEveryEntry ==
    (WellFormed /\ desc.comment = 0 /\ seekEnd # "no") =>
       /\ sp.number_of_files = << U16(input, Len(input) - CENTRAL_DIR_END_LEN + 10) >>
       /\ Len(yielded) = U16(input, Len(input) - CENTRAL_DIR_END_LEN + 10)
       /\ Len(yielded) = Len(desc.files)

(***************************************************************************)
(* C11.  On every archive read through a source with every Seek method,    *)
(* the k-th entry that next() yields carries the name, the compression     *)
(* method and the two sizes of the k-th central file header, counting the  *)
(* headers in byte order from the central-directory offset: no header is   *)
(* skipped, repeated or taken out of order.  Checked under SpecSeek.       *)
(***************************************************************************)
C11_CentralDirectoryOrder ==
    (desc.layout = "archive" /\ desc.kind = "std" /\ seeking = "new") =>
       \A k \in 1..Len(SomeItems) :
          FromCentralHeaderAt(SomeItems[k].item[1], CentralHeaderOffset(k))
\* The bytes the reads on an item have returned, in order.
RECURSIVE Got(_)
Got(rs) == IF rs = << >> THEN << >> ELSE Head(rs).bytes \o Got(Tail(rs))

\* The payload the push parser has delivered for the entry of index i.
PushPayload(i) == Concat(DataOf(events, i))

(***************************************************************************)
(* C12.  On every valid archive, the bytes that reads on the i-th entry    *)
(* the SeekingParser yields return, up to compressed_size of them, are the *)
(* bytes of the push parser's LocalFileData events for entry i, whose      *)
(* concatenation has compressed_size bytes.  Checked under SpecBoth, where *)
(* the push parser has been fed the whole stream before new() is called.   *)
(***************************************************************************)
C12_EnginesAgreeOnPayload ==
    (WellFormed /\ seeking = "new") =>
       \A i \in 1..Len(SomeItems) :
          LET size == SomeItems[i].item[1].info.compressed_size
              got  == Got(SomeItems[i].reads)
              push == PushPayload(i - 1)
          IN  /\ Len(push) = size
              /\ SubSeq(got, 1, Min(Len(got), size))
                   = SubSeq(push, 1, Min(Len(got), size))

\* Two reads on the second entry have returned all its compressed_size > 0
\* bytes, and the push parser has delivered that many for it.
C12_Witness ==
    /\ WellFormed
    /\ Len(SomeItems) >= 2
    /\ SomeItems[2].item[1].info.compressed_size > 0
    /\ Len(SomeItems[2].reads) = 2
    /\ Len(Got(SomeItems[2].reads)) = SomeItems[2].item[1].info.compressed_size
    /\ SomeItems[2].reads[1].bytes # << >>
    /\ Len(PushPayload(1)) = SomeItems[2].item[1].info.compressed_size
(***************************************************************************)
(* C13.  When the source's stream_len() is None, the parser that new()     *)
(* returns has number_of_files = None, and no call of next() on it yields  *)
(* an entry, whatever the bytes of the source.  Checked under SpecSeek.    *)
(***************************************************************************)
C13_NoLengthNoEntries ==
    (seeking = "new" /\ SourceStreamLen(desc.kind, input) = << >>) =>
       /\ sp.number_of_files = << >>
       /\ SomeItems = << >>
\* Where the last CENTRAL_DIR_END_LEN bytes of the stream start.
EndOffset == Len(input) - CENTRAL_DIR_END_LEN

(***************************************************************************)
(* C14.  After new() on a source of known length: if the last 22 bytes     *)
(* start with the EOCD signature, the parser's central-directory offset is *)
(* the EOCD's cd_offset field and number_of_files is Some of the EOCD's    *)
(* total-entries field (Some(0) for a stream that is an empty EOCD only);  *)
(* otherwise number_of_files is None and the source is left at position 0. *)
(* Checked under SpecSeek.                                                 *)
(***************************************************************************)
C14_NewReadsEndRecord ==
    (seeking = "new" /\ seekEnd # "panic"
       /\ SourceStreamLen(desc.kind, input) # << >>
       /\ EndOffset >= 0) =>
       IF U32Is(input, EndOffset, SIG_CENTRAL_DIR_END)
       THEN /\ sp.central_directory_offset = U32(input, EndOffset + 16)
            /\ sp.number_of_files = << U16(input, EndOffset + 10) >>
       ELSE /\ sp.number_of_files = << >>
            /\ items = << >> => streamPos = 0
(***************************************************************************)
(* C15.  Iteration ceases at the first malformed record: once a call of    *)
(* next() has returned None (a short read or a signature that does not     *)
(* match, in the central header or in the local header it points to),      *)
(* every later call of next() on the same parser returns None as well.     *)
(* Stated for sources with every Seek method.  Checked under SpecSeek.     *)
(***************************************************************************)
C15_CeasesAtFirstMalformed ==
    desc.kind = "std" =>
       \A j \in 1..Len(items) : \A k \in (j + 1)..Len(items) :
          items[j].item = << >> => items[k].item = << >>
(***************************************************************************)
(* C16.  The sequence of entries is finite, whatever the bytes of the      *)
(* source and wherever its central headers point: every entry next() has   *)
(* yielded has advanced next_entry_offset by at least 46 bytes, and each   *)
(* came from 46 bytes of the source of its own, so next() yields at most   *)
(* Len(input) / 46 entries and returns None from then on.  Checked under   *)
(* SpecSeek.  (A call that panics returns nothing and yields nothing.)     *)
(***************************************************************************)
C16_FiniteSequence ==
    seeking = "new" =>
       /\ CENTRAL_FILE_HEADER_LEN * Len(SomeItems) <= sp.next_entry_offset
       /\ CENTRAL_FILE_HEADER_LEN * Len(SomeItems) <= Len(input)
       /\ sp.central_directory_offset + sp.next_entry_offset
             + CENTRAL_FILE_HEADER_LEN > Len(input)
          => \A r \in SeekingParserNext(desc.kind, input, streamPos, sp) :
                r.item = << >>

\* The first central header points at no local header: next() has returned
\* None, then the second entry, then None at the end of the directory.
C16_Witness ==
    /\ desc.bad = "sig"
    /\ Len(items) = 3
    /\ items[1].item = << >>
    /\ items[2].item # << >>
    /\ items[3].item = << >>
    /\ sp.central_directory_offset + sp.next_entry_offset
          + CENTRAL_FILE_HEADER_LEN > Len(input)
\* The payload origin of an item: the cursor of the LocalFile as next()
\* returned it.
OriginOf(it) == it.item[1].stream_position

(***************************************************************************)
(* C17.  Reads on an entry are self-positioning and contiguous: the k-th   *)
(* read(buf) on an entry returns the bytes one read of the source gives at *)
(* payload origin + the number of bytes its earlier reads returned,        *)
(* wherever next() or reads on other entries have left the source, and the *)
(* entry's cursor is the origin plus the bytes returned so far.  Checked   *)
(* under SpecSeek.                                                         *)
(***************************************************************************)
C17_ReadsContiguous ==
    \A i \in 1..Len(SomeItems) :
       LET it == SomeItems[i] IN
       /\ it.file[1].stream_position = OriginOf(it) + Len(Got(it.reads))
       /\ \A k \in 1..Len(it.reads) :
             LET start == OriginOf(it) + Len(Got(SubSeq(it.reads, 1, k - 1))) IN
             IF it.reads[k].ok
             THEN it.reads[k].bytes
                    = SubSeq(input, start + 1,
                             Min(start + it.reads[k].len, Len(input)))
             ELSE it.reads[k].bytes = << >>

\* Two reads on one entry have each returned a byte, and the second found
\* the source somewhere else than at the entry's cursor.
C17_Witness ==
    \E i \in 1..Len(SomeItems) :
       LET it == SomeItems[i] IN
       /\ Len(it.reads) = 2
       /\ it.reads[1].bytes # << >>
       /\ it.reads[2].bytes # << >>
       /\ it.reads[2].cur # OriginOf(it) + Len(it.reads[1].bytes)
(***************************************************************************)
(* C18.  Every call of Read::read_exact returns, also on a source that has *)
(* run out of data: the loop ends with Ok or with the error of a read.     *)
(* Checked under SpecReadExact.                                            *)
(***************************************************************************)
C18_ReadExactTerminates == <>(rx.status \in {"ok", "err"})
\* The first four bytes of the slice passed to try_from.
SigPrefix == SubSeq(sig.value, 1, 4)

(***************************************************************************)
(* C19.  Signature::try_from on a byte slice returns DataNotEnough exactly *)
(* when the slice has fewer than four bytes; otherwise LocalFileHeader     *)
(* exactly when its first four bytes are 50 4B 03 04 (0x04034B50 in        *)
(* little-endian order), CentralFileHeader exactly when they are           *)
(* 50 4B 01 02, CentralDirEnd exactly when they are 50 4B 05 06, and       *)
(* InvalidSignature for every other first four bytes: the result is a      *)
(* function of the first four bytes alone.  Checked under SpecSig.         *)
(***************************************************************************)
C19_SignatureRecognition ==
    sig.result # << >> =>
       LET r == sig.result[1] IN
       /\ r = [ok |-> FALSE, v |-> "DataNotEnough"] <=> Len(sig.value) < 4
       /\ r = [ok |-> TRUE, v |-> "LocalFileHeader"]
             <=> (Len(sig.value) >= 4 /\ SigPrefix = << 80, 75, 3, 4 >>)
       /\ r = [ok |-> TRUE, v |-> "CentralFileHeader"]
             <=> (Len(sig.value) >= 4 /\ SigPrefix = << 80, 75, 1, 2 >>)
       /\ r = [ok |-> TRUE, v |-> "CentralDirEnd"]
             <=> (Len(sig.value) >= 4 /\ SigPrefix = << 80, 75, 5, 6 >>)
       /\ r = [ok |-> FALSE, v |-> "InvalidSignature"]
             <=> (Len(sig.value) >= 4
                  /\ SigPrefix \notin { << 80, 75, 3, 4 >>, << 80, 75, 1, 2 >>,
                                        << 80, 75, 5, 6 >> })

\* The EOCD signature followed by a byte of another signature has been
\* recognised as CentralDirEnd.
C19_Witness ==
    /\ sig.value = << 80, 75, 5, 6, 4 >>
    /\ sig.result = << [ok |-> TRUE, v |-> "CentralDirEnd"] >>
(***************************************************************************)
(* C20.  After InvalidSignature with a callback that continues, the parser *)
(* resynchronises byte by byte: a valid local record that follows a run of *)
(* garbage bytes of any length is recognised and parsed, i.e. once the     *)
(* stream has been fed, the record behind the garbage has had its          *)
(* LocalFileHeader, its payload and its LocalFileEnd.  Checked under       *)
(* SpecResync.                                                             *)
(***************************************************************************)
C20_ResyncAfterGarbage ==
    (desc.garbage /\ ~panicked /\ pos = Len(input)) =>
       /\ CountOf(events, "LocalFileHeader", 1) = 1
       /\ Concat(DataOf(events, 1)) = PayloadOf(2)
       /\ CountOf(events, "LocalFileEnd", 1) = 1
(***************************************************************************)
(* C21.  A successful read_exact(buf) on an entry fills buf with the       *)
(* buf.len() bytes at the entry's cursor and advances the cursor by        *)
(* buf.len(), the cursor being the payload origin plus the bytes the       *)
(* earlier calls on the entry have returned: consecutive calls observe     *)
(* contiguous, non-overlapping bytes.  Checked under SpecExact.            *)
(***************************************************************************)
C21_ReadExactContiguous ==
    \A i \in 1..Len(SomeItems) :
       LET it == SomeItems[i] IN
       \A k \in 1..Len(it.reads) :
          (it.reads[k].exact /\ it.reads[k].ok) =>
             /\ it.reads[k].at
                  = OriginOf(it) + Len(Got(SubSeq(it.reads, 1, k - 1)))
             /\ it.reads[k].bytes
                  = SubSeq(input, it.reads[k].at + 1,
                           it.reads[k].at + it.reads[k].len)
             /\ it.reads[k].to = it.reads[k].at + it.reads[k].len
(***************************************************************************)
(* C22.  No call of next() faults: on a central header whose               *)
(* file_name_length exceeds N the call returns (with the name rejected or  *)
(* cut to N bytes) instead of panicking on the name buffer.  Stated for    *)
(* streams of at least 22 bytes, on which new() cannot fault.  Checked     *)
(* under SpecSeek.                                                         *)
(***************************************************************************)
C22_LongNameHandled ==
    (seeking = "new" /\ Len(input) >= CENTRAL_DIR_END_LEN) => seekEnd # "panic"
\* The payload origin the stream gives for the central header at offset o:
\* the local header's offset plus 30 plus the name and extra-field lengths
\* of the local header.
PayloadOriginAt(o) ==
    LET rel == U32(input, o + 42) IN
    rel + LOCAL_FILE_HEADER_LEN + U16(input, rel + 26) + U16(input, rel + 28)

(***************************************************************************)
(* C23.  Every entry next() yields from a source whose seek succeeds has   *)
(* its data offset, its origin and its cursor at                           *)
(* relative_offset_of_local_header + 30 + name length + extra length, the  *)
(* lengths being those of the local header; on a well-formed archive that  *)
(* is the first payload byte of the entry's record, also when the central  *)
(* header's extra field has another length.  Checked under SpecSeek.       *)
(***************************************************************************)
C23_PayloadOrigin ==
    /\ \A k \in 1..Len(items) :
          (items[k].item # << >> /\ SourceSeek(desc.kind, 0, 0).ok) =>
             LET f == items[k].item[1] IN
             /\ f.info.file_data_offset = PayloadOriginAt(items[k].from)
             /\ f.stream_origin = PayloadOriginAt(items[k].from)
             /\ f.stream_position = PayloadOriginAt(items[k].from)
    /\ WellFormed =>
          \A i \in 1..Len(SomeItems) :
             OriginOf(SomeItems[i]) = PayloadStart(desc, i)

\* An entry whose local extra field (2 bytes) is longer than its central
\* one (none) has been yielded, and its first read has returned the first
\* payload byte.
C23_Witness ==
    \E i \in 1..Len(SomeItems) :
       /\ WellFormed
       /\ desc.files[i].xl # desc.files[i].cxl
       /\ desc.files[i].nl > 0
       /\ Len(SomeItems[i].reads) >= 1
       /\ SomeItems[i].reads[1].ok
       /\ SomeItems[i].reads[1].bytes = << PayloadBytes(i, desc.files[i])[1] >>
(***************************************************************************)
(* C24.  The LocalFileHeader event of an entry is delivered only once the  *)
(* 30 header bytes, all name bytes and all extra-field bytes of its record *)
(* have been consumed, and before every LocalFileData of the entry; its    *)
(* info has the name bytes that follow the header, the compression method  *)
(* of the method field and the two size fields.  Checked under Spec (any   *)
(* chunking, a callback that may cancel).                                  *)
(***************************************************************************)
C24_HeaderEvent ==
    /\ \A f \in 1..Len(desc.files) :
          Handed < PayloadStart(desc, f)
             => CountOf(events, "LocalFileHeader", f - 1) = 0
    /\ \A k \in 1..Len(events) :
          /\ events[k].type = "LocalFileHeader" =>
                /\ events[k].index < Len(desc.files)
                /\ events[k].info = InfoOf(events[k].index + 1)
          /\ events[k].type = "LocalFileData" =>
                \E j \in 1..(k - 1) :
                   /\ events[j].type = "LocalFileHeader"
                   /\ events[j].index = events[k].index

\* The header event of the second entry, which has a name and an extra
\* field, has been delivered by a call that started inside its name, and
\* its payload has followed.
C24_Witness ==
    /\ Len(desc.files) = 2
    /\ desc.files[2].nl > 0
    /\ desc.files[2].xl > 0
    /\ CountOf(events, "LocalFileHeader", 1) = 1
    /\ CountOf(events, "LocalFileData", 1) >= 1
    /\ last.start > LocalStart(desc, 2) + LOCAL_FILE_HEADER_LEN
    /\ last.start < PayloadStart(desc, 2)
    /\ \E k \in 1..Len(last.evs) : last.evs[k].type = "LocalFileHeader"
(***************************************************************************)
(* C25.  Once the feed_data call that consumes the last byte of the record *)
(* of entry i (the last payload byte or, for an empty payload, the last    *)
(* header, name or extra-field byte) has returned, LocalFileEnd(i) has     *)
(* been delivered, and when no further byte has been fed the entry index   *)
(* is i + 1 and the state RecvHeader(HeaderSignature, 4).  Checked under   *)
(* SpecValid (names fit, callback always true).                            *)
(***************************************************************************)
C25_EndWithoutFurtherInput ==
    \A f \in 1..Len(desc.files) :
       /\ pos >= LocalEnd(desc, f) => CountOf(events, "LocalFileEnd", f - 1) = 1
       /\ pos = LocalEnd(desc, f) =>
             /\ parser.localfile_index = f
             /\ parser.state = RecvHeaderState("HeaderSignature", 4)
\* The length of one archive of the stream, and the events of the entries
\* of its first k local records when they are given the indices from
\* base on.
ArchiveLen == Len(EncodeArchive(desc))

RECURSIVE EntriesFrom(_, _)
EntriesFrom(k, base) ==
    IF k = 0 THEN << >>
    ELSE EntriesFrom(k - 1, base)
         \o [j \in 1..Len(EntryEvents(k)) |->
               [EntryEvents(k)[j] EXCEPT !.index = base + k - 1]]

(***************************************************************************)
(* C26.  The push parser skips central file headers and EOCD records       *)
(* silently: behind the 46 bytes of a central header it discards exactly   *)
(* name + extra + comment bytes, behind the 22 bytes of an EOCD exactly    *)
(* comment_length bytes (kept as the archive comment); while it is fed     *)
(* the central directory and the EOCD no event is delivered except the     *)
(* LocalFileEnd of the last local entry, and the entry index stays at the  *)
(* number of local entries; a second archive that follows the EOCD is      *)
(* parsed, its entries numbered on; an archive that is an empty EOCD       *)
(* gives no event.  Checked under SpecConcat.                              *)
(***************************************************************************)
C26_DirectorySkipped ==
    LET n == Len(desc.files) IN
    /\ parser.state.tag = "RecvCentralFileHeader" /\ pos <= ArchiveLen =>
          \E k \in 1..n :
             /\ CentralStart(desc, k) + CENTRAL_FILE_HEADER_LEN <= pos
             /\ pos <= CentralStart(desc, k + 1)
             /\ parser.central_file_header_len - parser.central_file_header_index
                   = CentralStart(desc, k + 1) - pos
    /\ parser.state.tag = "RecvCentralDirEnd" /\ pos <= ArchiveLen =>
          /\ parser.central_dir_end_len - parser.central_dir_end_index
                = ArchiveLen - pos
          /\ parser.zip_file_comment
                = SubSeq(input, ArchiveLen - desc.comment + 1, pos)
    /\ (CdOffset(desc) < pos /\ pos <= ArchiveLen) =>
          /\ Merge(events) = EntriesFrom(n, 0)
          /\ parser.localfile_index = n
    /\ pos = Len(input) =>
          /\ Merge(events) = EntriesFrom(n, 0) \o EntriesFrom(n, n)
          /\ parser.localfile_index = 2 * n
    /\ n = 0 => events = << >>

\* Both copies of an archive with two entries and an archive comment have
\* been fed byte by byte at the end: the second copy's entries have been
\* delivered with the indices 2 and 3.
C26_Witness ==
    /\ Len(desc.files) = 2
    /\ desc.files[1].ccl > 0
    /\ desc.comment = 1
    /\ pos = Len(input)
    /\ last.len = 1
    /\ parser.state.tag = "RecvCentralDirEnd"
    /\ parser.zip_file_comment # << >>
    /\ CountOf(events, "LocalFileEnd", 3) = 1
(***************************************************************************)
(* C27.  In every state of the push parser between two calls: the header   *)
(* buffer holds at most 46 bytes; in RecvHeader(kind, needed) it holds at  *)
(* most needed bytes, which are the last bytes consumed; in every other    *)
(* state it is empty; file_name_index, extra_field_index and               *)
(* file_data_index never pass file_name_len, extra_field_len and           *)
(* file_data_len; the name buffer holds the name bytes received so far and *)
(* zeros, and no comment has been kept: extra-field and payload bytes are  *)
(* in no field of the parser.  Checked under Spec (every stream of the     *)
(* model, any chunking, a callback that may cancel).                       *)
(***************************************************************************)
C27_BufferingInvariant ==
    /\ Len(parser.buffer) <= CENTRAL_FILE_HEADER_LEN
    /\ parser.state.tag = "RecvHeader" =>
          /\ Len(parser.buffer) <= parser.state.hlen
          /\ parser.state.hlen <= CENTRAL_FILE_HEADER_LEN
          /\ ~panicked =>
                parser.buffer = SubSeq(input, pos - Len(parser.buffer) + 1, pos)
    /\ parser.state.tag # "RecvHeader" => parser.buffer = << >>
    /\ parser.file_name_index <= parser.file_name_len
    /\ parser.extra_field_index <= parser.extra_field_len
    /\ parser.file_data_index <= parser.file_data_len
    /\ parser.zip_file_comment = << >>
    /\ parser.state.tag \in {"RecvLocalFileName", "RecvLocalFileExtraField",
                             "RecvLocalFileData"} =>
          LET f    == parser.localfile_index + 1
              name == InfoOf(f).name
              have == Min(parser.file_name_index, N)
          IN  /\ f <= Len(desc.files)
              /\ parser.localfile_info # << >>
              /\ parser.localfile_info[1].file_name_buffer
                    = [j \in 1..N |-> IF j <= have THEN name[j] ELSE 0]

\* A call has ended one byte short of a complete central file header: the
\* buffer holds 45 of the 46 bytes needed.
C27_Witness ==
    /\ parser.state = RecvHeaderState("CentralFileHeader", CENTRAL_FILE_HEADER_LEN)
    /\ Len(parser.buffer) = CENTRAL_FILE_HEADER_LEN - 1
    /\ parser.localfile_index = 2
(***************************************************************************)
(* C28.  The LocalFileData events of the latest feed_data call: each slice *)
(* is non-empty and is a run of consecutive bytes of the chunk passed to   *)
(* that call; it reaches either the end of the chunk or the end of the     *)
(* entry's payload (offset + length = the compressed size announced in the *)
(* entry's header event), so it covers every payload byte of the entry     *)
(* that the chunk holds; and the call delivers at most one such event per  *)
(* entry index.  Checked under Spec.                                       *)
(***************************************************************************)
C28_SlicesMirrorChunk ==
    LET chunk == SubSeq(input, last.start + 1, last.start + last.len)
    IN  \A k \in 1..Len(last.evs) :
            LET e == last.evs[k] IN
            e.type = "LocalFileData" =>
               /\ Len(e.data) >= 1
               /\ CountOf(last.evs, "LocalFileData", e.index) = 1
               /\ \E a \in 0..(Len(chunk) - Len(e.data)) :
                     /\ e.data = SubSeq(chunk, a + 1, a + Len(e.data))
                     /\ \/ a + Len(e.data) = Len(chunk)
                        \/ \E h \in 1..Len(events) :
                              /\ events[h].type = "LocalFileHeader"
                              /\ events[h].index = e.index
                              /\ e.offset + Len(e.data)
                                    = events[h].info.compressed_size

\* One call has delivered the payload slices of two entries: the first
\* entry's payload had begun in an earlier call, and the second entry's
\* payload runs to the end of the chunk.
C28_Witness ==
    /\ last.status = "ok"
    /\ last.start > 0
    /\ \E j, k \in 1..Len(last.evs) :
          /\ j < k
          /\ last.evs[j].type = "LocalFileData" /\ last.evs[j].index = 0
          /\ last.evs[j].offset > 0
          /\ last.evs[k].type = "LocalFileData" /\ last.evs[k].index = 1
          /\ last.evs[k].offset = 0
          /\ last.evs[k].data = SubSeq(input, last.start + last.len, last.start + last.len)
(***************************************************************************)
(* C29.  Every feed_data call that ended with UserCancel has consumed at   *)
(* least one byte of its chunk or left the parser in another state than it *)
(* found it in (so that a caller who passes the unconsumed tail again is   *)
(* not handed the same event for the same input position).                 *)
(***************************************************************************)
C29_CancelMakesProgress ==
    last.status = "cancel" => (last.count >= 1 \/ last.moved)
(***************************************************************************)
(* C30.  new() on a source whose known length is below 22 bytes ends       *)
(* without an arithmetic fault, with number_of_files = None, and no call   *)
(* of next() on the parser yields an entry.  Checked under SpecSeek.       *)
(***************************************************************************)
C30_ShortSourceNoUnderflow ==
    (seeking = "new" /\ SourceStreamLen(desc.kind, input) # << >>
       /\ Len(input) < CENTRAL_DIR_END_LEN) =>
       /\ seekEnd # "panic"
       /\ sp.number_of_files = << >>
       /\ SomeItems = << >>
(***************************************************************************)
(* C31.  reset() is equivalent to a new parser: right after reset(), called *)
(* between two feed_data calls in whatever state the parser is, every      *)
(* field has its Default value; and the parser that was reset and then fed *)
(* the first pos bytes of a stream, in any chunking, is in the state of a  *)
(* fresh parser fed the same bytes in one call and has delivered the same  *)
(* events (contiguous payload slices joined), entry indices from 0.  The   *)
(* events are those delivered since the last reset.                        *)
(* Checked under SpecReset.                                                *)
(***************************************************************************)
C31_ResetIsFresh ==
    /\ last.status = "reset" => parser = PassiveParserDefault
    /\ ~panicked =>
          LET fresh == OneShot(pos) IN
          /\ parser = fresh.p
          /\ Merge(events) = Merge(fresh.evs)

\* reset() has been called, and the stream has been fed again into the
\* payload of its second entry: the events since are those of entries 0, 1.
C31_Witness ==
    /\ resets >= 1
    /\ parser.state.tag = "RecvLocalFileData"
    /\ parser.file_data_index = 1 /\ parser.localfile_index = 1
    /\ events # << >> /\ events[1].type = "LocalFileHeader" /\ events[1].index = 0
    /\ parser.zip_file_comment = << >>
\* The errors that report a header the parser did not take, or took and
\* cannot read.
UnreachableErrors ==
    {"LocalFileHeaderNotRecved", "InvalidLocalFileHeader",
     "InvalidCentralFileHeader", "InvalidCentralDirEnd"}

(***************************************************************************)
(* C32.  Through feed_data and reset, whatever the stream, the chunking    *)
(* and the callback's answers: in the states RecvLocalFileName,            *)
(* RecvLocalFileExtraField and RecvLocalFileData localfile_info is present *)
(* (no unwrap of it fails), in RecvHeader(LocalFileHeader |                *)
(* CentralFileHeader | CentralDirEnd, n) the buffered bytes start with the *)
(* signature of that header, and no event reports                          *)
(* LocalFileHeaderNotRecved, InvalidLocalFileHeader,                       *)
(* InvalidCentralFileHeader or InvalidCentralDirEnd.  Checked under        *)
(* SpecResetAny.                                                           *)
(***************************************************************************)
C32_InconsistencyUnreachable ==
    /\ parser.state.tag \in {"RecvLocalFileName", "RecvLocalFileExtraField",
                             "RecvLocalFileData"} =>
          parser.localfile_info # << >>
    /\ (parser.state.tag = "RecvHeader" /\ parser.state.htype # "HeaderSignature") =>
          /\ Len(parser.buffer) >= 4
          /\ SignatureTryFrom(SubSeq(parser.buffer, 1, 4))
                = [ok |-> TRUE, v |-> parser.state.htype]
    /\ \A k \in 1..Len(last.evs) :
          last.evs[k].type = "ParsingError" =>
             last.evs[k].err.kind \notin UnreachableErrors
    /\ \A k \in 1..Len(events) :
          events[k].type = "ParsingError" =>
             events[k].err.kind \notin UnreachableErrors

\* After a reset the stream is fed again and the callback has cancelled a
\* call: the parser is in the name of the first entry and holds that
\* entry's header.
C32_Witness ==
    /\ resets >= 1
    /\ last.status = "cancel"
    /\ parser.state.tag = "RecvLocalFileName"
    /\ parser.localfile_index = 0
    /\ parser.file_name_index = 1
=============================================================================
